---- MODULE Spec2Model ----
(***************************************************************************)
(* A model of bkmrk ("bm"), a plain-text bookmark manager: one .bm file    *)
(* per bookmark (front matter + body) in a directory tree.                 *)
(*                                                                         *)
(* Python strings are modelled as sequences of one-character strings, so   *)
(* that slicing, splitting, stripping and searching are computed the way   *)
(* the code computes them.  There are four specifications:                 *)
(*   SpecSlug   the slug / path functions applied to bounded strings       *)
(*   SpecCodec  parse_front_matter / build_text applied to bounded inputs  *)
(*   SpecWrite  atomic_write taken step by step, with crashes              *)
(*   SpecStore  the commands (add, mv, import, ...) acting on a store      *)
(***************************************************************************)
EXTENDS Integers, Sequences, FiniteSets, TLC

VARIABLES
    slugIn,     \* SpecSlug: the string handed to the function under test
    slugOut,    \* SpecSlug: the call made and what it returned
    cdPc,       \* SpecCodec: "text" | "meta" | "decoded" | "encoded" | "redecoded"
                \*            | "listform"
    cdFrom,     \* SpecCodec: whether the run started from a text, a (meta, body)
                \*            or a tags value
    cdText,     \* SpecCodec: the text at hand
    cdMeta0,    \* SpecCodec: the metadata handed to build_text
    cdBody0,    \* SpecCodec: the body handed to build_text
    cdMeta,     \* SpecCodec: the metadata parse_front_matter returned last
    cdBody,     \* SpecCodec: the body parse_front_matter returned last
    cdArg,      \* SpecCodec: the tags value v of the lines 'tags: v', 'tags: [v]'
    wFiles,     \* SpecWrite: the files of the directory, path -> content
    wOld,       \* SpecWrite: what the target held before the write (or Absent)
    wProcs,     \* SpecWrite: the invocations that run atomic_write
    wPc,        \* SpecWrite: each invocation's position in atomic_write
    wData,      \* SpecWrite: the data each invocation writes
    wFd,        \* SpecWrite: the file each invocation has open (or NoPath)
    wOff,       \* SpecWrite: the offset of each invocation's open file
    fsFiles,    \* SpecStore: canonical path -> content of each file
    fsDirs,     \* SpecStore: the directories
    fsLinks,    \* SpecStore: path -> target of each symbolic link
    clock,      \* SpecStore: the time, one tick per command
    last        \* SpecStore: the last command, its arguments and its outcome

(***************************************************************************)
(* Bounds                                                                  *)
(***************************************************************************)
MaxSlugLen == 4
\* header lines of a generated text
MaxLines == 2
\* items of a generated metadata map
MaxItems == 2
\* characters of a generated tags value
MaxTagLen == 3
\* commands run against the store
MaxSteps == 3
\* bookmarks of an imported file
MaxImport == 1
\* commands run against a store of entries
MaxCmds == 2
\* characters of a token handed to the resolver
MaxTokenLen == 3
\* characters of the host of a generated URL
MaxHostLen == 5

(***************************************************************************)
(* str helpers (Python semantics)                                          *)
(***************************************************************************)
Whitespace == {" ", "\n", "\t"}

RECURSIVE LStripSet(_, _)
LStripSet(s, cs) ==
    IF s # <<>> /\ Head(s) \in cs THEN LStripSet(Tail(s), cs) ELSE s

RECURSIVE RStripSet(_, _)
RStripSet(s, cs) ==
    IF s # <<>> /\ s[Len(s)] \in cs
    THEN RStripSet(SubSeq(s, 1, Len(s) - 1), cs)
    ELSE s

\* str.strip(chars)
StripSet(s, cs) == LStripSet(RStripSet(s, cs), cs)

\* str.strip()
Strip(s) == StripSet(s, Whitespace)

\* str.startswith(p)
StartsWith(s, p) == Len(s) >= Len(p) /\ SubSeq(s, 1, Len(p)) = p

\* str.endswith(p)
EndsWith(s, p) ==
    Len(s) >= Len(p) /\ SubSeq(s, Len(s) - Len(p) + 1, Len(s)) = p

\* str.find(p): the 1-based index of the first occurrence, 0 when there is none
Find(s, p) ==
    LET hits == {i \in 1..(Len(s) - Len(p) + 1) : SubSeq(s, i, i + Len(p) - 1) = p}
    IN  IF hits = {} THEN 0 ELSE CHOOSE i \in hits : \A j \in hits : i <= j

\* c in s
HasChar(s, c) == \E i \in 1..Len(s) : s[i] = c

\* str.split(sep) for a one-character sep: "a//b" -> ["a", "", "b"], "" -> [""]
RECURSIVE Split(_, _)
Split(s, sep) ==
    LET i == Find(s, <<sep>>)
    IN  IF i = 0 THEN <<s>>
        ELSE <<SubSeq(s, 1, i - 1)>> \o Split(SubSeq(s, i + 1, Len(s)), sep)

\* sep.join(parts)
RECURSIVE Join(_, _)
Join(parts, sep) ==
    IF parts = <<>> THEN <<>>
    ELSE IF Len(parts) = 1 THEN parts[1]
    ELSE parts[1] \o sep \o Join(Tail(parts), sep)

\* [p for p in parts if p]
NonEmpty(parts) == SelectSeq(parts, LAMBDA p : p # <<>>)

\* str.replace(a, b) for one-character a and b
ReplaceChar(s, a, b) == [i \in 1..Len(s) |-> IF s[i] = a THEN b ELSE s[i]]

(***************************************************************************)
(* Paths & IDs                                                             *)
(***************************************************************************)
FILE_EXT == <<".", "b", "m">>

\* what \w matches
WordChars ==
    {"a","b","c","d","e","f","g","h","i","j","k","l","m","n","o","p","q","r",
     "s","t","u","v","w","x","y","z",
     "A","B","C","D","E","F","G","H","I","J","K","L","M","N","O","P","Q","R",
     "S","T","U","V","W","X","Y","Z",
     "0","1","2","3","4","5","6","7","8","9","_"}

\* re.sub(r"[^\w\-/\.]", "-", s)
SubUnsafeChars(s) ==
    [i \in 1..Len(s) |->
        IF s[i] \in WordChars \cup {"-", "/", "."} THEN s[i] ELSE "-"]

\* re.sub(r"-{2,}", "-", s)
RECURSIVE CollapseHyphens(_)
CollapseHyphens(s) ==
    IF Len(s) < 2 THEN s
    ELSE IF s[1] = "-" /\ s[2] = "-" THEN CollapseHyphens(Tail(s))
    ELSE <<s[1]>> \o CollapseHyphens(Tail(s))

untitled == <<"u","n","t","i","t","l","e","d">>

normalize_slug(s) ==
    LET s1 == ReplaceChar(StripSet(Strip(s), {"/"}), " ", "-")
        s2 == SubUnsafeChars(s1)
        s3 == StripSet(CollapseHyphens(s2), {"-"})
    IN  IF s3 = <<>> THEN untitled ELSE s3

\* die(msg) ends the process: modelled as a result that carries the error
Die(e) == [ok |-> FALSE, err |-> e, val |-> <<>>]
Ok(v) == [ok |-> TRUE, err |-> "", val |-> v]

\* a variant that forgets the '..' test
RejectUnsafeNoDotDot(rel) ==
    LET parts == NonEmpty(Split(rel, "/"))
    IN  IF rel # <<>> /\ rel[1] = "/" THEN Die("absolute")
        ELSE Ok(Join(parts, <<"/">>))

_reject_unsafe(rel) ==
    LET parts == NonEmpty(Split(rel, "/"))
    IN  IF \E i \in 1..Len(parts) : parts[i] = <<".", ".">> THEN Die("dotdot")
        ELSE IF rel # <<>> /\ rel[1] = "/" THEN Die("absolute")
        ELSE Ok(Join(parts, <<"/">>))

\* pathlib: base / text.  A path is the sequence of its components, from the
\* filesystem root; an absolute right operand replaces the base, empty and "."
\* components are dropped, ".." components are kept.
PathParts(text) ==
    SelectSeq(Split(text, "/"), LAMBDA p : p # <<>> /\ p # <<".">>)

PathJoin(base, text) ==
    IF text # <<>> /\ text[1] = "/" THEN PathParts(text)
    ELSE base \o PathParts(text)

IdToPathOf(store, r) ==
    IF r.ok THEN Ok(PathJoin(store, r.val \o FILE_EXT)) ELSE r

id_to_path(store, slug) == IdToPathOf(store, _reject_unsafe(normalize_slug(slug)))

(***************************************************************************)
(* Front matter I/O                                                        *)
(***************************************************************************)
FM_START == <<"-", "-", "-", "\n">>
FM_END == <<"-", "-", "-", "\n">>

K_url == <<"u","r","l">>
K_title == <<"t","i","t","l","e">>
K_tags == <<"t","a","g","s">>
K_created == <<"c","r","e","a","t","e","d">>
K_modified == <<"m","o","d","i","f","i","e","d">>
K_notes == <<"n","o","t","e","s">>
K_added == <<"a","d","d","e","d">>
K_updated == <<"u","p","d","a","t","e","d">>

\* A dict is the sequence of its items in insertion order, each item
\* [k |-> key, t |-> "str" | "list" | "none", v |-> value]: a str value is a
\* string, a list value a sequence of strings, None is t = "none".
Str(k, v) == [k |-> k, t |-> "str", v |-> v]
List(k, v) == [k |-> k, t |-> "list", v |-> v]

DictKeys(m) == {m[i].k : i \in 1..Len(m)}
DictHas(m, k) == \E i \in 1..Len(m) : m[i].k = k
DictItem(m, k) == m[CHOOSE i \in 1..Len(m) : m[i].k = k]
\* m[k] = item: an existing key keeps its place, a new key goes last
DictSet(m, item) ==
    IF DictHas(m, item.k)
    THEN [i \in 1..Len(m) |-> IF m[i].k = item.k THEN item ELSE m[i]]
    ELSE Append(m, item)
DictDel(m, k) == SelectSeq(m, LAMBDA e : e.k # k)
\* dict == dict: the same keys with the same values, whatever the order
DictEq(m1, m2) ==
    /\ DictKeys(m1) = DictKeys(m2)
    /\ \A k \in DictKeys(m1) :
           /\ DictItem(m1, k).t = DictItem(m2, k).t
           /\ DictItem(m1, k).v = DictItem(m2, k).v

\* [t.strip() for t in parts if t.strip()]
StripAll(parts) ==
    LET stripped == [i \in 1..Len(parts) |-> Strip(parts[i])]
    IN  SelectSeq(stripped, LAMBDA t : t # <<>>)

\* a variant where a legacy key replaces the canonical one
NormalizeMetaLegacyWins(meta) ==
    LET m1 == IF DictHas(meta, K_added)
              THEN DictSet(DictDel(meta, K_added),
                           [DictItem(meta, K_added) EXCEPT !.k = K_created])
              ELSE meta
        m2 == IF DictHas(m1, K_updated)
              THEN DictSet(DictDel(m1, K_updated),
                           [DictItem(m1, K_updated) EXCEPT !.k = K_modified])
              ELSE m1
        m3 == IF DictHas(m2, K_tags) /\ DictItem(m2, K_tags).t = "str"
              THEN DictSet(m2, List(K_tags,
                       StripAll(Split(DictItem(m2, K_tags).v, ","))))
              ELSE m2
    IN  IF ~DictHas(m3, K_tags) THEN Append(m3, List(K_tags, <<>>)) ELSE m3

\* if "tags" not in m: m["tags"] = []
NormDefault(m) ==
    IF ~DictHas(m, K_tags) THEN Append(m, List(K_tags, <<>>)) ELSE m

\* a tags value that is a str becomes the list of its comma-separated parts
NormTags(m) ==
    NormDefault(IF DictHas(m, K_tags) /\ DictItem(m, K_tags).t = "str"
                THEN DictSet(m, List(K_tags, StripAll(Split(DictItem(m, K_tags).v, ","))))
                ELSE m)

\* updated -> modified
NormUpdated(m) ==
    NormTags(IF DictHas(m, K_updated) /\ ~DictHas(m, K_modified)
             THEN Append(DictDel(m, K_updated),
                         [DictItem(m, K_updated) EXCEPT !.k = K_modified])
             ELSE m)

\* added -> created, then the steps above
_normalize_meta(meta) ==
    NormUpdated(IF DictHas(meta, K_added) /\ ~DictHas(meta, K_created)
                THEN Append(DictDel(meta, K_added),
                            [DictItem(meta, K_added) EXCEPT !.k = K_created])
                ELSE meta)

\* str.splitlines(), for the line boundary "\n"
SplitLines(s) ==
    IF s = <<>> THEN <<>>
    ELSE IF s[Len(s)] = "\n" THEN Split(SubSeq(s, 1, Len(s) - 1), "\n")
    ELSE Split(s, "\n")

\* str.lower()
Upper == <<"A","B","C","D","E","F","G","H","I","J","K","L","M","N","O","P",
           "Q","R","S","T","U","V","W","X","Y","Z">>
Lower == <<"a","b","c","d","e","f","g","h","i","j","k","l","m","n","o","p",
           "q","r","s","t","u","v","w","x","y","z">>
ToLower(s) ==
    [i \in 1..Len(s) |->
        IF \E j \in 1..26 : Upper[j] = s[i]
        THEN Lower[CHOOSE j \in 1..26 : Upper[j] = s[i]]
        ELSE s[i]]

\* the character loop over the inside of "[...]": a quote toggles inq and is
\* dropped, a comma outside quotes ends a part
RECURSIVE ScanTags(_, _, _, _)
ScanTags(inner, parts, buf, inq) ==
    IF inner = <<>>
    THEN IF Strip(buf) # <<>> THEN Append(parts, Strip(buf)) ELSE parts
    ELSE LET ch == Head(inner)
         IN  IF ch \in {"\"", "'"}
             THEN ScanTags(Tail(inner), parts, buf, ~inq)
             ELSE IF ch = "," /\ ~inq
             THEN ScanTags(Tail(inner),
                           IF Strip(buf) # <<>> THEN Append(parts, Strip(buf))
                           ELSE parts,
                           <<>>, inq)
             ELSE ScanTags(Tail(inner), parts, Append(buf, ch), inq)

\* the value of a "tags:" line
ParseTagsValue(v) ==
    IF StartsWith(v, <<"[">>) /\ EndsWith(v, <<"]">>)
    THEN LET inner == Strip(SubSeq(v, 2, Len(v) - 1))
         IN  IF inner # <<>> THEN StripAll(ScanTags(inner, <<>>, <<>>, FALSE))
             ELSE <<>>
    ELSE StripAll(Split(v, ","))

\* the loop over the header's lines
RECURSIVE ParseHeader(_, _)
ParseHeader(lines, meta) ==
    IF lines = <<>> THEN meta
    ELSE LET line == Strip(Head(lines))
             c == Find(line, <<":">>)
             k == ToLower(Strip(SubSeq(line, 1, c - 1)))
             v == Strip(SubSeq(line, c + 1, Len(line)))
         IN  IF line = <<>> \/ line[1] = "#" \/ c = 0
             THEN ParseHeader(Tail(lines), meta)
             ELSE IF k = K_tags
             THEN ParseHeader(Tail(lines),
                              DictSet(meta, List(k, ParseTagsValue(v))))
             ELSE ParseHeader(Tail(lines), DictSet(meta, Str(k, v)))

http == <<"h","t","t","p",":","/","/">>
https == <<"h","t","t","p","s",":","/","/">>

\* return _normalize_meta(meta), body
Decoded(meta, body) == [meta |-> _normalize_meta(meta), body |-> body]

\* no front matter: the first line may be a url
ParseLoose(text, lines) ==
    IF lines # <<>>
       /\ (StartsWith(Strip(lines[1]), http) \/ StartsWith(Strip(lines[1]), https))
    THEN Decoded(<<Str(K_url, Strip(lines[1]))>>,
                 LStripSet(Join(Tail(lines), <<"\n">>), {"\n"}))
    ELSE Decoded(<<>>, text)

\* a variant that reads a header without close delimiter up to the end
ParseHeaderToEnd(text, rest, end_idx) ==
    IF end_idx = 0
    THEN Decoded(ParseHeader(SplitLines(rest), <<>>), <<>>)
    ELSE Decoded(ParseHeader(SplitLines(SubSeq(rest, 1, end_idx - 1)), <<>>),
                 LStripSet(SubSeq(rest, end_idx + Len(FM_END), Len(rest)), {"\n"}))

\* front matter: rest is the text after FM_START, end_idx is rest.find(FM_END)
\* (0 for Python's -1)
ParseHeaderAt(text, rest, end_idx) ==
    IF end_idx = 0
    THEN Decoded(<<>>, text)
    ELSE Decoded(ParseHeader(SplitLines(SubSeq(rest, 1, end_idx - 1)), <<>>),
                 LStripSet(SubSeq(rest, end_idx + Len(FM_END), Len(rest)), {"\n"}))

ParseRest(text, rest) == ParseHeaderAt(text, rest, Find(rest, FM_END))

\* returns [meta, body]
parse_front_matter(text) ==
    IF ~StartsWith(text, FM_START)
    THEN ParseLoose(text, SplitLines(text))
    ELSE ParseRest(text, SubSeq(text, Len(FM_START) + 1, Len(text)))

_fmt_tag(t) ==
    IF HasChar(t, ",") \/ HasChar(t, " ") \/ t = <<>>
    THEN <<"\"">> \o t \o <<"\"">>
    ELSE t

\* "".join(f"  {ln}\n" for ln in lines)
RECURSIVE IndentLines(_)
IndentLines(lines) ==
    IF lines = <<>> THEN <<>>
    ELSE <<" ", " ">> \o Head(lines) \o <<"\n">> \o IndentLines(Tail(lines))

\* the header line(s) of one item
RenderItem(e) ==
    IF e.t = "list"
    THEN e.k \o <<":", " ", "[">>
         \o Join([i \in 1..Len(e.v) |-> _fmt_tag(e.v[i])], <<",", " ">>)
         \o <<"]", "\n">>
    ELSE IF HasChar(e.v, "\n")
    THEN e.k \o <<":", " ", "|", "\n">> \o IndentLines(SplitLines(e.v))
    ELSE e.k \o <<":", " ">> \o e.v \o <<"\n">>

RECURSIVE RenderItems(_)
RenderItems(items) ==
    IF items = <<>> THEN <<>>
    ELSE RenderItem(Head(items)) \o RenderItems(Tail(items))

KeyOrder == <<K_url, K_title, K_tags, K_created, K_modified, K_notes>>

\* v not in (None, "", [])
IsBlank(e) == e.t = "none" \/ e.v = <<>>

\* the items in the order of KeyOrder, then the other keys as they come
OrderedItems(m, known) ==
    [i \in 1..Len(known) |-> DictItem(m, known[i])]
    \o SelectSeq(m, LAMBDA e : \A i \in 1..Len(KeyOrder) : KeyOrder[i] # e.k)

BuildNormalized(m, body) ==
    FM_START
    \o RenderItems(OrderedItems(m, SelectSeq(KeyOrder, LAMBDA k : DictHas(m, k))))
    \o FM_END \o body

\* a variant that keeps the keys without a value
BuildTextKeepBlank(meta, body) == BuildNormalized(_normalize_meta(meta), body)

build_text(meta, body) ==
    BuildNormalized(_normalize_meta(SelectSeq(meta, LAMBDA e : ~IsBlank(e))), body)

(***************************************************************************)
(* Files.  A file tree maps the path of each existing file to its content. *)
(***************************************************************************)
\* the content read from a path that holds no file
Absent == <<"<absent>">>
NoPath == << <<"<nopath>">> >>

Content(files, p) == IF p \in DOMAIN files THEN files[p] ELSE Absent

\* open(p, "w"): create the file or truncate it
OpenTrunc(files, p) == (p :> <<>>) @@ files

\* write(chunk) at offset off of the open file p; a gap is filled with NULs
WriteAt(files, p, off, chunk) ==
    LET old == Content(files, p)
        cur == IF old = Absent THEN <<>> ELSE old
        n == off + Len(chunk)
        len == IF Len(cur) > n THEN Len(cur) ELSE n
    IN  (p :> [i \in 1..len |->
                  IF i > off /\ i <= n THEN chunk[i - off]
                  ELSE IF i <= Len(cur) THEN cur[i]
                  ELSE "\\0"]) @@ files

Unlink(files, p) == [q \in DOMAIN files \ {p} |-> files[q]]

\* os.replace(src, dst), for an existing src: one atomic rename
Replace(files, src, dst) ==
    IF src = dst THEN files
    ELSE (dst :> files[src]) @@ Unlink(files, src)

\* a variant that writes the target in place
TmpPathInPlace(path) == path

\* path.with_suffix(path.suffix + ".tmp"), for a path that has a suffix
TmpPath(path) ==
    [path EXCEPT ![Len(path)] = @ \o <<".", "t", "m", "p">>]

\* atomic_write as one step: what it leaves behind when it runs to its end
atomic_write(files, path, data) ==
    Replace(WriteAt(OpenTrunc(files, TmpPath(path)), TmpPath(path), 0, data),
            TmpPath(path), path)

\* the store root directory, /s
StoreRoot == << <<"s">> >>

(***************************************************************************)
(* IDs.  hashlib digests are modelled by a table that is injective on the  *)
(* URLs of the model: equal URLs get equal IDs, different URLs different   *)
(* ones.  Like the hex digests of the code, the tokens are left unchanged  *)
(* by normalize_slug.                                                      *)
(***************************************************************************)
\* a URL whose slug falls into the directory "ln"
U1 == <<"h", ":", "/", "/", "l", "n", "/", "p">>
\* a URL that ends in "---"
U2 == <<"h", ":", "/", "/", "d", "/", "-", "-", "-">>

\* hashlib.blake2b(url, digest_size=6).hexdigest(): a hash, taken as free of
\* collisions on the urls that occur (U1, U2 and what a file of U2 decodes to)
rid(url) ==
    IF url = U1 THEN <<"r", "1">>
    ELSE IF url = U2 THEN <<"r", "2">>
    ELSE <<"r", "0">>

\* hashlib.sha1(s).hexdigest()[:7]
_short_sha(url) ==
    IF url = U1 THEN <<"1">>
    ELSE IF url = U2 THEN <<"2">>
    ELSE <<"0">>

\* str.replace(pat, rep) for a non-empty pat
RECURSIVE ReplaceSub(_, _, _)
ReplaceSub(s, pat, rep) ==
    LET i == Find(s, pat)
    IN  IF i = 0 THEN s
        ELSE SubSeq(s, 1, i - 1) \o rep
             \o ReplaceSub(SubSeq(s, i + Len(pat), Len(s)), pat, rep)

\* the first index of s at or after from that holds a character of cs, or
\* Len(s) + 1
RECURSIVE FirstOf(_, _, _)
FirstOf(s, cs, from) ==
    IF from > Len(s) \/ s[from] \in cs THEN from ELSE FirstOf(s, cs, from + 1)

\* urllib.parse.urlparse, for URLs of the form [scheme://netloc][/path][?query][#fragment]
UrlParse(url) ==
    LET i == Find(url, <<":", "/", "/">>)
        hasNetloc ==
            /\ i > 1
            /\ \A j \in 1..(i - 1) : url[j] \in WordChars \cup {"+", "-", "."}
        from == IF hasNetloc THEN i + 3 ELSE 1
        endNetloc == IF hasNetloc THEN FirstOf(url, {"/", "?", "#"}, from) ELSE from
        endPath == FirstOf(url, {"?", "#"}, endNetloc)
    IN  [netloc |-> SubSeq(url, from, endNetloc - 1),
         path |-> SubSeq(url, endNetloc, endPath - 1)]

create_slug_from_url(url) ==
    LET p == UrlParse(url)
        host0 == ReplaceSub(ToLower(IF p.netloc # <<>> THEN p.netloc
                                    ELSE <<"l", "i", "n", "k">>),
                            <<"w", "w", "w", ".">>, <<>>)
        host == ReplaceChar(ReplaceChar(host0, ":", "-"), ".", "-")
        segs == Split(StripSet(p.path, {"/"}), "/")
        lastSeg == IF p.path # <<>> /\ p.path # <<"/">> THEN segs[Len(segs)] ELSE <<>>
        base == normalize_slug(IF lastSeg # <<>> THEN host \o <<"/">> \o lastSeg
                               ELSE host)
    IN  base \o <<"-">> \o _short_sha(url)

(***************************************************************************)
(* The file system: fs = [files, dirs, links].  files maps the canonical   *)
(* path of each file to its content, dirs is the set of directories, links *)
(* maps the path of each symbolic link to the directory it points to.      *)
(***************************************************************************)
Outside == << <<"o">> >>
LinkPath == StoreRoot \o << <<"l", "n">> >>

Parent(p) == SubSeq(p, 1, Len(p) - 1)

\* path.resolve(): follow symbolic links and '..', component by component
RECURSIVE ResolveFrom(_, _, _)
ResolveFrom(links, done, rest) ==
    IF rest = <<>> THEN done
    ELSE IF Head(rest) = <<".", ".">>
    THEN ResolveFrom(links, Parent(done), Tail(rest))
    ELSE IF Append(done, Head(rest)) \in DOMAIN links
    THEN ResolveFrom(links, links[Append(done, Head(rest))], Tail(rest))
    ELSE ResolveFrom(links, Append(done, Head(rest)), Tail(rest))

ResolvePath(fs, p) == ResolveFrom(fs.links, <<>>, p)

\* PurePath.relative_to succeeds
IsUnder(p, base) == Len(p) >= Len(base) /\ SubSeq(p, 1, Len(base)) = base

is_relative_to(fs, path, base) ==
    IsUnder(ResolvePath(fs, path), ResolvePath(fs, base))

\* path.exists()
Exists(fs, p) ==
    ResolvePath(fs, p) \in DOMAIN fs.files \/ ResolvePath(fs, p) \in fs.dirs

IsFile(fs, p) == ResolvePath(fs, p) \in DOMAIN fs.files

\* path.read_text()
ReadText(fs, p) == fs.files[ResolvePath(fs, p)]

\* the directories path.mkdir(parents=True, exist_ok=True) leaves in place
Mkdirs(fs, d) ==
    fs.dirs \cup {SubSeq(ResolvePath(fs, d), 1, n) : n \in 1..Len(ResolvePath(fs, d))}

\* mkdir fails when a component of the path is a file
MkdirFails(fs, d) ==
    \E n \in 1..Len(ResolvePath(fs, d)) :
        SubSeq(ResolvePath(fs, d), 1, n) \in DOMAIN fs.files

\* store.rglob("*.bm"): the entry files under the store; the walk does not
\* follow symbolic links, and it yields them in no particular order
rglob(fs, store) ==
    {p \in DOMAIN fs.files : IsUnder(p, store) /\ EndsWith(p[Len(p)], FILE_EXT)}

\* path.stem
Stem(p) ==
    LET name == p[Len(p)]
        dots == {i \in 2..Len(name) : name[i] = "."}
    IN  IF dots = {} THEN name
        ELSE SubSeq(name, 1, (CHOOSE i \in dots : \A j \in dots : j <= i) - 1)

\* the order of characters (code points) and of paths (component by component)
CharOrder ==
    <<"\n", " ", "\"", "#", "'", ",", "-", ".", "/",
      "0","1","2","3","4","5","6","7","8","9", ":", "?", "@",
      "A","B","C","D","E","F","G","H","I","J","K","L","M","N","O","P","Q","R",
      "S","T","U","V","W","X","Y","Z", "[", "]", "_",
      "a","b","c","d","e","f","g","h","i","j","k","l","m","n","o","p","q","r",
      "s","t","u","v","w","x","y","z", "|">>
Ord(c) == CHOOSE i \in 1..Len(CharOrder) : CharOrder[i] = c

RECURSIVE StrLess(_, _)
StrLess(a, b) ==
    IF b = <<>> THEN FALSE
    ELSE IF a = <<>> THEN TRUE
    ELSE IF Head(a) = Head(b) THEN StrLess(Tail(a), Tail(b))
    ELSE Ord(Head(a)) < Ord(Head(b))

RECURSIVE PathLess(_, _)
PathLess(p, q) ==
    IF q = <<>> THEN FALSE
    ELSE IF p = <<>> THEN TRUE
    ELSE IF Head(p) = Head(q) THEN PathLess(Tail(p), Tail(q))
    ELSE StrLess(Head(p), Head(q))

\* sorted(hits)[0]
FirstPath(hits) == CHOOSE p \in hits : \A q \in hits : q = p \/ PathLess(p, q)

\* load_entry(p)
load_entry(fs, p) == parse_front_matter(ReadText(fs, p))

\* meta.get(k, "")
MetaGet(meta, k) == IF DictHas(meta, k) THEN DictItem(meta, k).v ELSE <<>>

(***************************************************************************)
(* Resolution helpers.  A resolution ends in a path, in None or in die().  *)
(***************************************************************************)
Found(p) == [kind |-> "path", path |-> p, err |-> ""]
NotFound == [kind |-> "none", path |-> NoPath, err |-> ""]
Died(e) == [kind |-> "die", path |-> NoPath, err |-> e]

\* sorted(hits)[0], or None
FirstHit(hits) == IF hits = {} THEN NotFound ELSE Found(FirstPath(hits))

\* a variant that takes every entry whose stem holds the last component
\* anywhere
FindExactContains(fs, store, exact, parts) ==
    IF ~exact.ok THEN Died(exact.err)
    ELSE IF Exists(fs, exact.val) THEN Found(exact.val)
    ELSE FirstHit({p \in rglob(fs, store) :
                      parts = <<>> \/ Find(Stem(p), parts[Len(parts)]) # 0})

\* the exact path, or the entries whose stem ends with the last component
FindExact(fs, store, exact, parts) ==
    IF ~exact.ok THEN Died(exact.err)
    ELSE IF Exists(fs, exact.val) THEN Found(exact.val)
    ELSE FirstHit({p \in rglob(fs, store) :
                      EndsWith(Stem(p), IF parts = <<>> THEN <<>> ELSE parts[Len(parts)])})

FindSafe(fs, store, r) ==
    IF ~r.ok THEN Died(r.err)
    ELSE FindExact(fs, store, id_to_path(store, r.val), PathParts(r.val))

\* find_candidates(store, needle)[0], or None for an empty list
find_candidates(fs, store, needle) ==
    FindSafe(fs, store, _reject_unsafe(normalize_slug(needle)))

\* the entries whose url has the stable ID token
IdHits(fs, store, token) ==
    {p \in rglob(fs, store) :
        LET url == MetaGet(load_entry(fs, p).meta, K_url)
        IN  url # <<>> /\ rid(url) = token}

\* a variant that tries the exact path before the ID scan
ResolvePathFirst(fs, store, token) ==
    LET t == Strip(token)
        r == _reject_unsafe(normalize_slug(t))
        exact == id_to_path(store, r.val)
        ids == IdHits(fs, store, t)
    IN  IF r.ok /\ exact.ok /\ Exists(fs, exact.val) THEN {Found(exact.val)}
        ELSE IF ids # {} THEN {Found(p) : p \in ids}
        ELSE {find_candidates(fs, store, t)}

\* the result of the ID scan, or the fallback
ResolveIds(fs, store, t, ids) ==
    IF ids # {} THEN {Found(p) : p \in ids} ELSE {find_candidates(fs, store, t)}

ResolveStripped(fs, store, t) == ResolveIds(fs, store, t, IdHits(fs, store, t))

\* resolve_id_or_path(store, token): every result the scan order allows.
\* The ID scan returns the first match rglob yields; the fallback is
\* find_candidates.
resolve_id_or_path(fs, store, token) == ResolveStripped(fs, store, Strip(token))

(***************************************************************************)
(* SpecSlug: the path functions applied to every bounded string            *)
(***************************************************************************)
SlugAlphabet == {"a", "A", ".", "/", "-", " ", "@"}

etc_passwd ==
    <<".",".","/",".",".","/","e","t","c","/","p","a","s","s","w","d">>

SlugInputs ==
    UNION {[1..n -> SlugAlphabet] : n \in 0..MaxSlugLen} \cup {etc_passwd}

NoCall == [fn |-> "none"]

slugVars == <<slugIn, slugOut>>
codecVars == <<cdPc, cdFrom, cdText, cdMeta0, cdBody0, cdMeta, cdBody, cdArg>>

SlugIdle == slugIn = <<>> /\ slugOut = NoCall
CodecIdle ==
    /\ cdPc = "idle"
    /\ cdFrom = "none"
    /\ cdText = <<>>
    /\ cdMeta0 = <<>>
    /\ cdBody0 = <<>>
    /\ cdMeta = <<>>
    /\ cdBody = <<>>
    /\ cdArg = <<>>

writeVars == <<wFiles, wOld, wProcs, wPc, wData, wFd, wOff>>
WriteIdle ==
    /\ wFiles = <<>>
    /\ wOld = Absent
    /\ wProcs = {}
    /\ wPc = <<>>
    /\ wData = <<>>
    /\ wFd = <<>>
    /\ wOff = <<>>

storeVars == <<fsFiles, fsDirs, fsLinks, clock, last>>
StoreIdle ==
    /\ fsFiles = <<>>
    /\ fsDirs = {}
    /\ fsLinks = <<>>
    /\ clock = 0
    /\ last = [cmd |-> "none"]

SlugInit ==
    /\ slugIn \in SlugInputs
    /\ slugOut = NoCall
    /\ CodecIdle
    /\ WriteIdle
    /\ StoreIdle

CallIdToPath ==
    /\ slugOut = NoCall
    /\ slugOut' = [fn |-> "id_to_path", r |-> id_to_path(StoreRoot, slugIn)]
    /\ UNCHANGED <<slugIn, codecVars, writeVars, storeVars>>

\* normalize_slug(s)
CallNormalizeSlug ==
    /\ slugOut = NoCall
    /\ slugOut' = [fn |-> "normalize_slug", slug |-> normalize_slug(slugIn)]
    /\ UNCHANGED <<slugIn, codecVars, writeVars, storeVars>>

\* normalize_slug(normalize_slug(s))
CallNormalizeAgain ==
    /\ slugOut.fn = "normalize_slug"
    /\ slugOut' = [fn |-> "normalize_twice", once |-> slugOut.slug,
                   slug |-> normalize_slug(slugOut.slug)]
    /\ UNCHANGED <<slugIn, codecVars, writeVars, storeVars>>

SlugNext == CallIdToPath \/ CallNormalizeSlug \/ CallNormalizeAgain

vars == <<slugVars, codecVars, writeVars, storeVars>>

SpecSlug == SlugInit /\ [][SlugNext]_vars

(***************************************************************************)
(* C1                                                                      *)
(***************************************************************************)
HasSegment(s, seg) == \E i \in 1..Len(Split(s, "/")) : Split(s, "/")[i] = seg

\* the path is <store>/<rel>.bm for a rel with no '..' segment, no empty
\* segment and no leading '/'
IsSafeEntryPath(path, store) ==
    \E rel \in {Join(SubSeq(path, Len(store) + 1, Len(path)), <<"/">>)} :
        /\ Len(path) > Len(store)
        /\ SubSeq(path, 1, Len(store)) = store
        /\ EndsWith(rel, FILE_EXT)
        /\ LET r == SubSeq(rel, 1, Len(rel) - Len(FILE_EXT))
           IN  /\ r # <<>>
               /\ r[1] # "/"
               /\ ~HasSegment(r, <<".", ".">>)
               /\ ~HasSegment(r, <<>>)

\* C1: id_to_path(store, s) either fails with the unsafe-path error or
\* returns <store>/<rel>.bm where rel has no '..' segment, no empty segment
\* and no leading '/'; it fails for every s that has a '..' segment and
\* succeeds for the plain relative slug 'a/b'.
C1_IdToPathSafe ==
    slugOut.fn = "id_to_path" =>
        /\ \/ (~slugOut.r.ok /\ slugOut.r.err \in {"dotdot", "absolute"})
           \/ (slugOut.r.ok /\ IsSafeEntryPath(slugOut.r.val, StoreRoot))
        /\ HasSegment(slugIn, <<".", ".">>) => ~slugOut.r.ok
        /\ slugIn = <<"a", "/", "b">> =>
               /\ slugOut.r.ok
               /\ slugOut.r.val = StoreRoot \o << <<"a">>, <<"b",".","b","m">> >>

C1_Witness ==
    /\ slugOut.fn = "id_to_path"
    /\ slugIn = etc_passwd
    /\ ~slugOut.r.ok
    /\ slugOut.r.err = "dotdot"

(***************************************************************************)
(* C15, C16                                                                *)
(***************************************************************************)
\* C15: normalize_slug is idempotent: normalizing the result of
\* normalize_slug returns it unchanged, for every string, also for strings
\* that mix hyphens, slashes and replaced characters at their ends.
C15_NormalizeIdempotent ==
    slugOut.fn = "normalize_twice" => slugOut.slug = slugOut.once

Letters == WordChars \ {"0","1","2","3","4","5","6","7","8","9","_"}

\* the shape C16 states for a result r of the input s
SlugShape(r, s) ==
    /\ r # <<>>
    /\ \/ r = untitled
       \/ \A i \in 1..Len(r) :
              r[i] \in Letters => \E j \in 1..Len(s) : s[j] = r[i]
    /\ \A i \in 1..Len(r) : r[i] \in WordChars \cup {"-", "/", "."}
    /\ \A i \in 1..(Len(r) - 1) : ~(r[i] = "-" /\ r[i + 1] = "-")
    /\ r[1] \notin {"-", "/"} \cup Whitespace
    /\ r[Len(r)] \notin {"-", "/"} \cup Whitespace

\* C16: the result of normalize_slug is non-empty ('untitled' when nothing
\* is left), keeps the case of its letters, holds only alphanumerics,
\* underscore, hyphen, slash and dot, has no run of two or more hyphens, and
\* neither begins nor ends with a hyphen, a slash or whitespace.
C16_NormalizeShape ==
    slugOut.fn = "normalize_slug" => SlugShape(slugOut.slug, slugIn)

(***************************************************************************)
(* SpecCodec: decode a text, encode the result, decode again; or encode a  *)
(* (meta, body) and decode the result                                      *)
(***************************************************************************)
CodecKeys == {K_url, K_tags, K_added, K_created, <<"k">>}
CodecValues ==
    { <<"v">>,
      <<"x", "-", "-", "-", " ">>,
      <<>>,
      <<"[", "a", ",", " ", "\"", "b", " ", "c", "\"", "]">> }
HeaderLines == {k \o <<":", " ">> \o v \o <<"\n">> : k \in CodecKeys, v \in CodecValues}

RECURSIVE Concat(_)
Concat(parts) == IF parts = <<>> THEN <<>> ELSE Head(parts) \o Concat(Tail(parts))

Headers == {Concat(ls) : ls \in UNION {[1..n -> HeaderLines] : n \in 0..MaxLines}}

\* texts without (complete) front matter
LooseTexts ==
    { <<>>,
      <<"p", "l", "a", "i", "n">>,
      https \o <<"x", "\n", "\n", "b">>,
      FM_START \o <<"u", "r", "l", ":", " ", "v", "\n">>,
      FM_START,
      FM_START \o <<"u", "r", "l", ":", " ", "v", "\n", "-", "-", "-">>,
      FM_START \o <<"n", "o", "c", "\n", "u", "r", "l", ":", " ", "v", "\n">> \o FM_END,
      FM_START \o <<"n", "o", "c", "\n">> \o FM_END \o <<"b">>,
      http \o <<"x">>,
      <<" ">> \o https \o <<"x", " ", "\n", "b">>,
      <<"\n">> \o https \o <<"x">>,
      <<"x", "\n">> \o https \o <<"y">>,
      <<"h", "t", "t", "p", ":", "x", "\n", "\n", "b">> }

\* headers of legacy and canonical timestamp keys
LegacyLines ==
    {k \o <<":", " ">> \o v \o <<"\n">> :
        k \in {K_added, K_created, K_updated, K_modified}, v \in {<<"v">>, <<"w">>}}
LegacyTexts ==
    {FM_START \o Concat(ls) \o FM_END :
        ls \in UNION {[1..n -> LegacyLines] : n \in 1..(MaxLines + 1)}}

CodecTexts ==
    {FM_START \o h \o FM_END \o b : h \in Headers, b \in {<<>>, <<"\n", "b", "\n">>}}
    \cup LooseTexts \cup LegacyTexts

T_ab == <<"a", ",", "b">>
T_cd == <<"c", " ", "d">>
T_quote == <<"a", "\"", " ", "b">>
T_lead == <<" ", "a">>

MetaItems ==
    { Str(K_url, <<"v">>),
      Str(K_title, <<>>),
      Str(K_title, <<"v">>),
      Str(K_added, <<"w">>),
      Str(K_notes, <<"a", "\n", "b">>),
      [k |-> K_created, t |-> "none", v |-> <<>>],
      Str(K_tags, <<"a", ",", " ", "b">>),
      List(K_tags, <<>>),
      List(K_tags, <<T_ab, T_cd>>),
      List(K_tags, <<T_quote>>),
      List(K_tags, <<T_lead>>) }

CodecMetas ==
    {m \in UNION {[1..n -> MetaItems] : n \in 0..MaxItems} :
        \A i, j \in 1..Len(m) : m[i].k = m[j].k => i = j}

CodecBodies == {<<>>, <<"b", "\n">>, <<"\n", "b">>}

\* the values v of the header lines 'tags: v' and 'tags: [v]'
TagChars == {"a", ",", " ", "\"", "[", "]", "-"}
TagValues == UNION {[1..n -> TagChars] : n \in 0..MaxTagLen}
TagsText(v) == FM_START \o K_tags \o <<":", " ">> \o v \o <<"\n">> \o FM_END

CodecInit ==
    /\ \/ /\ cdPc = "text"
          /\ cdFrom = "text"
          /\ cdText \in CodecTexts
          /\ cdMeta0 = <<>>
          /\ cdBody0 = <<>>
          /\ cdArg = <<>>
       \/ /\ cdPc = "meta"
          /\ cdFrom = "meta"
          /\ cdText = <<>>
          /\ cdMeta0 \in CodecMetas
          /\ cdBody0 \in CodecBodies
          /\ cdArg = <<>>
       \/ /\ cdPc = "text"
          /\ cdFrom = "tags"
          /\ cdArg \in TagValues
          /\ cdText = TagsText(cdArg)
          /\ cdMeta0 = <<>>
          /\ cdBody0 = <<>>
    /\ cdMeta = <<>>
    /\ cdBody = <<>>
    /\ SlugIdle
    /\ WriteIdle
    /\ StoreIdle

\* (m, b) = parse_front_matter(t)
ParseText ==
    /\ cdPc = "text"
    /\ LET r == parse_front_matter(cdText)
       IN  /\ cdMeta0' = r.meta
           /\ cdBody0' = r.body
           /\ cdMeta' = r.meta
           /\ cdBody' = r.body
    /\ cdPc' = "decoded"
    /\ UNCHANGED <<cdFrom, cdText, cdArg, slugVars, writeVars, storeVars>>

\* t = build_text(m, b)
BuildText ==
    /\ cdPc \in {"decoded", "meta"}
    /\ cdText' = build_text(cdMeta0, cdBody0)
    /\ cdPc' = "encoded"
    /\ UNCHANGED <<cdFrom, cdMeta0, cdBody0, cdMeta, cdBody, cdArg, slugVars, writeVars,
                   storeVars>>

\* parse_front_matter(build_text(m, b))
ReparseText ==
    /\ cdPc = "encoded"
    /\ LET r == parse_front_matter(cdText)
       IN  /\ cdMeta' = r.meta
           /\ cdBody' = r.body
    /\ cdPc' = "redecoded"
    /\ UNCHANGED <<cdFrom, cdText, cdMeta0, cdBody0, cdArg, slugVars, writeVars, storeVars>>

\* parse_front_matter of the list form 'tags: [v]' of a decoded 'tags: v'
ParseListForm ==
    /\ cdPc = "decoded"
    /\ cdFrom = "tags"
    /\ cdText' = TagsText(<<"[">> \o cdArg \o <<"]">>)
    /\ LET r == parse_front_matter(cdText')
       IN  /\ cdMeta' = r.meta
           /\ cdBody' = r.body
    /\ cdPc' = "listform"
    /\ UNCHANGED <<cdFrom, cdMeta0, cdBody0, cdArg, slugVars, writeVars, storeVars>>

CodecNext == ParseText \/ BuildText \/ ReparseText \/ ParseListForm

SpecCodec == CodecInit /\ [][CodecNext]_vars

(***************************************************************************)
(* C3                                                                      *)
(***************************************************************************)
\* C3: for every text t, with (m, b) = parse_front_matter(t),
\* parse_front_matter(build_text(m, b)) returns exactly (m, b).
C3_DecodeEncodeDecode ==
    (cdPc = "redecoded" /\ cdFrom = "text") =>
        /\ DictEq(cdMeta, cdMeta0)
        /\ cdBody = cdBody0

(***************************************************************************)
(* C4                                                                      *)
(***************************************************************************)
Recognized == {K_url, K_title, K_tags, K_created, K_modified, K_notes}

\* C4: for any metadata map m that has only the recognized fields and any
\* body b, parse_front_matter(build_text(m, b)) = (_normalize_meta(m), b).
C4_EncodeDecode ==
    (cdPc = "redecoded" /\ cdFrom = "meta" /\ DictKeys(cdMeta0) \subseteq Recognized) =>
        /\ DictEq(cdMeta, _normalize_meta(cdMeta0))
        /\ cdBody = cdBody0

(***************************************************************************)
(* C5                                                                      *)
(***************************************************************************)
HasCommaOrSpace(t) == HasChar(t, ",") \/ HasChar(t, " ")

\* C5: encoding and then decoding a tag list whose tags contain commas
\* and/or spaces reproduces the exact original list.
C5_TagListRoundTrip ==
    (/\ cdPc = "redecoded"
     /\ cdFrom = "meta"
     /\ DictHas(cdMeta0, K_tags)
     /\ DictItem(cdMeta0, K_tags).t = "list"
     /\ \A i \in 1..Len(DictItem(cdMeta0, K_tags).v) :
            HasCommaOrSpace(DictItem(cdMeta0, K_tags).v[i]))
    => DictItem(cdMeta, K_tags).v = DictItem(cdMeta0, K_tags).v

(***************************************************************************)
(* C17                                                                     *)
(***************************************************************************)
\* the header region of a text with front matter, as written: each
\* 'key: value' line, the last line of a key winning
RawHeader(text) ==
    LET rest == SubSeq(text, Len(FM_START) + 1, Len(text))
    IN  ParseHeader(SplitLines(SubSeq(rest, 1, Find(rest, FM_END) - 1)), <<>>)

HasHeader(text) ==
    /\ StartsWith(text, FM_START)
    /\ Find(SubSeq(text, Len(FM_START) + 1, Len(text)), FM_END) # 0

\* the legacy key is renamed to the canonical one when that is absent; a
\* canonical key that is present keeps its value
LegacyMapped(raw, meta, legacy, canonical) ==
    /\ (DictHas(raw, legacy) /\ ~DictHas(raw, canonical)) =>
           /\ DictHas(meta, canonical)
           /\ DictItem(meta, canonical).v = DictItem(raw, legacy).v
           /\ ~DictHas(meta, legacy)
    /\ DictHas(raw, canonical) =>
           /\ DictHas(meta, canonical)
           /\ DictItem(meta, canonical).v = DictItem(raw, canonical).v

\* C17: decoding a header that has 'added' and no 'created' yields created
\* equal to the added value and no 'added' key, and the same for 'updated'
\* and 'modified'; a canonical key that is present keeps its value and is
\* never replaced by the legacy value.
C17_LegacyKeys ==
    (cdFrom = "text" /\ cdPc = "decoded" /\ HasHeader(cdText)) =>
        /\ LegacyMapped(RawHeader(cdText), cdMeta0, K_added, K_created)
        /\ LegacyMapped(RawHeader(cdText), cdMeta0, K_updated, K_modified)

\* 'added' without 'created' became created, and 'modified' kept its value
\* next to an 'updated' of another value
C17_Witness ==
    /\ cdFrom = "text"
    /\ cdPc = "decoded"
    /\ HasHeader(cdText)
    /\ LET raw == RawHeader(cdText)
       IN  /\ DictHas(raw, K_added) /\ ~DictHas(raw, K_created)
           /\ DictHas(raw, K_updated) /\ DictHas(raw, K_modified)
           /\ DictItem(raw, K_updated).v # DictItem(raw, K_modified).v
    /\ MetaGet(cdMeta0, K_created) = <<"v">>
    /\ MetaGet(cdMeta0, K_modified) = <<"w">>
    /\ ~DictHas(cdMeta0, K_added)

(***************************************************************************)
(* C18                                                                     *)
(***************************************************************************)
\* C18: for every string v, the header line 'tags: v' and the header line
\* 'tags: [v]' decode to identical tag lists.
C18_LegacyTagsAsList ==
    (cdFrom = "tags" /\ cdPc = "listform") =>
        MetaGet(cdMeta0, K_tags) = MetaGet(cdMeta, K_tags)

(***************************************************************************)
(* C20                                                                     *)
(***************************************************************************)
EmptyMeta == <<List(K_tags, <<>>)>>

\* the lines of the header region that hold a colon
ColonLines(text) ==
    LET rest == SubSeq(text, Len(FM_START) + 1, Len(text))
    IN  SelectSeq(SplitLines(SubSeq(rest, 1, Find(rest, FM_END) - 1)),
                  LAMBDA l : HasChar(l, ":"))

\* the text before the first colon of some line, trimmed and lower-cased
KeysOf(lines) ==
    {ToLower(Strip(SubSeq(lines[i], 1, Find(lines[i], <<":">>) - 1))) :
        i \in 1..Len(lines)}

FirstLine(text) == IF Find(text, <<"\n">>) = 0 THEN text
                   ELSE SubSeq(text, 1, Find(text, <<"\n">>) - 1)

\* C20: parse_front_matter returns a result for every text: a text that
\* starts with the open delimiter and has no close delimiter yields empty
\* metadata (tags = []) and the full text as body; a text without the open
\* delimiter yields its first line as url when that starts with http:// or
\* https://, otherwise empty metadata and the whole text as body; header
\* lines without a colon are skipped.
C20_MalformedNeverFatal ==
    (cdFrom = "text" /\ cdPc = "decoded") =>
        /\ (StartsWith(cdText, FM_START) /\ ~HasHeader(cdText)) =>
               (cdMeta0 = EmptyMeta /\ cdBody0 = cdText)
        /\ ~StartsWith(cdText, FM_START) =>
               LET first == Strip(FirstLine(cdText))
               IN  IF StartsWith(first, http) \/ StartsWith(first, https)
                   THEN /\ DictKeys(cdMeta0) = {K_url, K_tags}
                        /\ MetaGet(cdMeta0, K_url) = first
                        /\ MetaGet(cdMeta0, K_tags) = <<>>
                   ELSE cdMeta0 = EmptyMeta /\ cdBody0 = cdText
        /\ HasHeader(cdText) =>
               DictKeys(cdMeta0) \subseteq
                   KeysOf(ColonLines(cdText)) \cup {K_tags, K_created, K_modified}

\* a header that was opened and never closed was decoded
C20_Witness ==
    /\ cdFrom = "text"
    /\ cdPc = "decoded"
    /\ cdText = FM_START \o <<"u", "r", "l", ":", " ", "v", "\n">>
    /\ cdMeta0 = EmptyMeta
    /\ cdBody0 = cdText

(***************************************************************************)
(* SpecWrite: atomic_write taken one system call at a time.  write_text    *)
(* opens the temp file (truncating it), writes the data in one or more     *)
(* chunks and closes it; os.replace renames it over the target.  The       *)
(* process may die between any two calls.                                  *)
(***************************************************************************)
WriteTarget == StoreRoot \o << <<"a">> \o FILE_EXT >>

WriteContents ==
    { build_text(<<Str(K_url, <<"u">>)>>, <<>>),
      build_text(<<Str(K_url, <<"v">>), List(K_tags, <<<<"x">>>>)>>, <<"b", "\n">>) }

WriteInitFor(procs) ==
    /\ wOld \in WriteContents \cup {Absent}
    /\ wFiles = IF wOld = Absent THEN <<>> ELSE (WriteTarget :> wOld)
    /\ wProcs = procs
    /\ wPc = [w \in procs |-> "start"]
    /\ wData \in [procs -> WriteContents]
    /\ wFd = [w \in procs |-> NoPath]
    /\ wOff = [w \in procs |-> 0]
    /\ SlugIdle
    /\ CodecIdle
    /\ StoreIdle

WriteInit == WriteInitFor({1})

\* tmp.write_text(data): open(tmp, "w")
AwOpen(w) ==
    /\ wPc[w] = "start"
    /\ wFiles' = OpenTrunc(wFiles, TmpPath(WriteTarget))
    /\ wFd' = [wFd EXCEPT ![w] = TmpPath(WriteTarget)]
    /\ wOff' = [wOff EXCEPT ![w] = 0]
    /\ wPc' = [wPc EXCEPT ![w] = "writing"]
    /\ UNCHANGED <<wOld, wProcs, wData, slugVars, codecVars, storeVars>>

\* tmp.write_text(data): one write of the next n characters
AwWrite(w) ==
    /\ wPc[w] = "writing"
    /\ \E n \in 1..(Len(wData[w]) - wOff[w]) :
           /\ wFiles' = WriteAt(wFiles, wFd[w], wOff[w],
                                SubSeq(wData[w], wOff[w] + 1, wOff[w] + n))
           /\ wOff' = [wOff EXCEPT ![w] = @ + n]
    /\ UNCHANGED <<wOld, wProcs, wPc, wData, wFd, slugVars, codecVars, storeVars>>

\* tmp.write_text(data): close, once everything is written
AwClose(w) ==
    /\ wPc[w] = "writing"
    /\ wOff[w] = Len(wData[w])
    /\ wFd' = [wFd EXCEPT ![w] = NoPath]
    /\ wPc' = [wPc EXCEPT ![w] = "closed"]
    /\ UNCHANGED <<wFiles, wOld, wProcs, wData, wOff, slugVars, codecVars, storeVars>>

\* os.replace(tmp, path); an open file follows its rename
AwReplace(w) ==
    /\ wPc[w] = "closed"
    /\ IF TmpPath(WriteTarget) \in DOMAIN wFiles
       THEN /\ wFiles' = Replace(wFiles, TmpPath(WriteTarget), WriteTarget)
            /\ wFd' = [v \in wProcs |->
                          IF wFd[v] = TmpPath(WriteTarget) THEN WriteTarget
                          ELSE wFd[v]]
            /\ wPc' = [wPc EXCEPT ![w] = "done"]
       ELSE /\ wPc' = [wPc EXCEPT ![w] = "error"]
            /\ UNCHANGED <<wFiles, wFd>>
    /\ UNCHANGED <<wOld, wProcs, wData, wOff, slugVars, codecVars, storeVars>>

\* the process dies (kill, power loss) before its next call
AwCrash(w) ==
    /\ wPc[w] \in {"start", "writing", "closed"}
    /\ wPc' = [wPc EXCEPT ![w] = "crashed"]
    /\ wFd' = [wFd EXCEPT ![w] = NoPath]
    /\ UNCHANGED <<wFiles, wOld, wProcs, wData, wOff, slugVars, codecVars, storeVars>>

WriteNext ==
    \/ \E w \in wProcs : AwOpen(w)
    \/ \E w \in wProcs : AwWrite(w)
    \/ \E w \in wProcs : AwClose(w)
    \/ \E w \in wProcs : AwReplace(w)
    \/ \E w \in wProcs : AwCrash(w)

SpecWrite == WriteInit /\ [][WriteNext]_vars

(***************************************************************************)
(* C6                                                                      *)
(***************************************************************************)
\* C6: during a content write the target path holds, at every intermediate
\* step and after a crash at any step, either the complete previous content
\* (or no file if there was none) or the complete new content: the previous
\* one until the rename, the new one after it.
C6_TargetNeverPartial ==
    \A w \in wProcs :
        /\ wPc[w] \in {"start", "writing", "closed", "crashed"} =>
               Content(wFiles, WriteTarget) = wOld
        /\ wPc[w] = "done" => Content(wFiles, WriteTarget) = wData[w]

\* a crash in the middle of writing the temp file, over an existing target
C6_Witness ==
    \E w \in wProcs :
        /\ wPc[w] = "crashed"
        /\ wOff[w] > 0
        /\ wOff[w] < Len(wData[w])
        /\ wOld # Absent
        /\ wOld # wData[w]
        /\ Content(wFiles, TmpPath(WriteTarget)) = SubSeq(wData[w], 1, wOff[w])
        /\ Content(wFiles, WriteTarget) = wOld

(***************************************************************************)
(* Commands.  A command maps the file system and its arguments to the set  *)
(* of its possible outcomes [files, dirs, res]: the files and directories  *)
(* it leaves and what it reported.  No directory of the model is named     *)
(* "*.bm", so a path that ends in ".bm" is a file or nothing.              *)
(***************************************************************************)
\* iso_now(): the time as text (the code's ISO-8601 text, shortened)
Digits == <<"0", "1", "2", "3", "4", "5", "6", "7", "8", "9">>
iso_now(now) == <<"t", Digits[now + 1]>>

\* meta.update(items)
RECURSIVE DictUpdate(_, _)
DictUpdate(m, items) ==
    IF items = <<>> THEN m ELSE DictUpdate(DictSet(m, Head(items)), Tail(items))

\* what the editor leaves in the file it was given
EditorAlt == FM_START \o <<"u","r","l",":"," ">> \o U2 \o <<"\n">>
             \o <<"c","r","e","a","t","e","d",":"," ","t","9","\n">> \o FM_END
\* the file of U1 with another created line
EditorRedate ==
    FM_START \o <<"u","r","l",":"," ">> \o U1 \o <<"\n">>
    \o <<"c","r","e","a","t","e","d",":"," ","t","9","\n">> \o FM_END
EditorOutput(choice, template) ==
    IF choice = "alt" THEN EditorAlt
    ELSE IF choice = "redate" THEN EditorRedate
    ELSE template

\* a variant that stores no url
AddMetaNoUrl(a, now) ==
    << Str(K_title, a.name),
       List(K_tags, StripAll(Split(a.tags, ","))),
       Str(K_created, iso_now(now)) >>

\* the metadata cmd_add starts from, and its body
AddMeta(a, now) ==
    << Str(K_url, Strip(a.url)),
       Str(K_title, a.name),
       List(K_tags, StripAll(Split(a.tags, ","))),
       Str(K_created, iso_now(now)) >>

AddBody(desc) == IF desc # <<>> THEN desc \o <<"\n">> ELSE desc

\* --edit: the editor's file is decoded and merged, created is kept
AddMerge(meta0, edited) ==
    [meta |-> DictUpdate(meta0, SelectSeq(edited.meta, LAMBDA e : e.k # K_created)),
     body |-> edited.body]

AddEdit(a, meta0, body0) ==
    IF a.edit = "no" THEN [meta |-> meta0, body |-> body0]
    ELSE AddMerge(meta0,
             parse_front_matter(EditorOutput(a.edit, build_text(meta0, body0))))

\* the entry cmd_add builds: [meta, body]
AddEntry(a, now) ==
    AddEdit(a, AddMeta(a, now), AddBody(RStripSet(a.description, Whitespace)))

\* the slug of cmd_add before the path checks
AddSlug(a) ==
    LET slug == IF a.id # <<>> THEN a.id ELSE create_slug_from_url(Strip(a.url))
    IN  IF a.path # <<>>
        THEN normalize_slug(a.path) \o <<"/">> \o normalize_slug(slug)
        ELSE slug

\* what cmd_add reports, before its outcome is known
AddRes(fs, a, hasPath, fpath) ==
    [cmd |-> "add", ok |-> FALSE, err |-> "", out |-> <<>>,
     path |-> IF hasPath THEN fpath ELSE NoPath,
     existed |-> hasPath /\ Exists(fs, fpath),
     before |-> IF hasPath /\ IsFile(fs, fpath) THEN ReadText(fs, fpath) ELSE Absent,
     auto |-> a.id = <<>>, force |-> a.force,
     url |-> Strip(a.url), text |-> <<>>]

Failed(fs, res, e) ==
    {[files |-> fs.files, dirs |-> fs.dirs, res |-> [res EXCEPT !.err = e]]}

\* fpath.parent.mkdir, atomic_write and the printed ID
AddWrite(fs, fpath, res, url, text) ==
    {[files |-> atomic_write(fs.files, ResolvePath(fs, fpath), text),
      dirs |-> Mkdirs(fs, Parent(fpath)),
      res |-> [res EXCEPT !.ok = TRUE, !.out = rid(url), !.text = text]]}

\* a variant without the check for an existing entry
AddAtNoExistsCheck(fs, a, r1, r2, fpath, res, entry) ==
    IF ~r1.ok THEN Failed(fs, res, r1.err)
    ELSE IF ~r2.ok THEN Failed(fs, res, r2.err)
    ELSE IF ~is_relative_to(fs, fpath, StoreRoot) THEN Failed(fs, res, "escapes")
    ELSE IF MkdirFails(fs, Parent(fpath)) THEN Failed(fs, res, "NotADirectoryError")
    ELSE AddWrite(fs, fpath, res, MetaGet(entry.meta, K_url),
                  build_text(entry.meta, entry.body))

AddAt(fs, a, r1, r2, fpath, res, entry) ==
    IF ~r1.ok THEN Failed(fs, res, r1.err)
    ELSE IF ~r2.ok THEN Failed(fs, res, r2.err)
    ELSE IF ~is_relative_to(fs, fpath, StoreRoot) THEN Failed(fs, res, "escapes")
    ELSE IF Exists(fs, fpath) /\ ~a.force THEN Failed(fs, res, "exists")
    ELSE IF MkdirFails(fs, Parent(fpath)) THEN Failed(fs, res, "NotADirectoryError")
    ELSE AddWrite(fs, fpath, res, MetaGet(entry.meta, K_url),
                  build_text(entry.meta, entry.body))

AddChecked(fs, a, now, r1, r2) ==
    AddAt(fs, a, r1, r2, r2.val, AddRes(fs, a, r1.ok /\ r2.ok, r2.val),
          AddEntry(a, now))

AddSlugged(fs, a, now, r1) == AddChecked(fs, a, now, r1, id_to_path(StoreRoot, r1.val))

cmd_add(fs, a, now) == AddSlugged(fs, a, now, _reject_unsafe(AddSlug(a)))

\* what cmd_mv reports, before its outcome is known
MvRes(fs, src, force, hasDst, dstp) ==
    [cmd |-> "mv", ok |-> FALSE, err |-> "", force |-> force,
     src |-> src.path,
     dst |-> IF hasDst THEN dstp ELSE NoPath,
     moved |-> IF src.kind = "path" /\ IsFile(fs, src.path)
               THEN ReadText(fs, src.path) ELSE Absent]

\* a variant that copies the source and leaves it in place
MvMoveCopy(fs, src, dstp, force, res, dirs) ==
    IF Exists(fs, dstp) /\ ~force
    THEN [files |-> fs.files, dirs |-> dirs, res |-> [res EXCEPT !.err = "exists"]]
    ELSE [files |-> WriteAt(OpenTrunc(fs.files, ResolvePath(fs, dstp)),
                            ResolvePath(fs, dstp), 0, ReadText(fs, src.path)),
          dirs |-> dirs,
          res |-> [res EXCEPT !.ok = TRUE]]

\* a variant that moves onto an occupied destination without --force
MvMoveOver(fs, src, dstp, force, res, dirs) ==
    [files |-> Replace(fs.files, ResolvePath(fs, src.path), ResolvePath(fs, dstp)),
     dirs |-> dirs,
     res |-> [res EXCEPT !.ok = TRUE]]

\* dst.parent.mkdir, the exists check and shutil.move
MvMove(fs, src, dstp, force, res, dirs) ==
    IF Exists(fs, dstp) /\ ~force
    THEN [files |-> fs.files, dirs |-> dirs, res |-> [res EXCEPT !.err = "exists"]]
    ELSE [files |-> Replace(fs.files, ResolvePath(fs, src.path), ResolvePath(fs, dstp)),
          dirs |-> dirs,
          res |-> [res EXCEPT !.ok = TRUE]]

MvAt(fs, src, force, d1, d2, dstp, res) ==
    LET Fail(e) == [files |-> fs.files, dirs |-> fs.dirs,
                    res |-> [res EXCEPT !.err = e]]
    IN  IF src.kind = "die" THEN Fail(src.err)
        ELSE IF src.kind = "none" THEN Fail("source not found")
        ELSE IF ~d1.ok THEN Fail(d1.err)
        ELSE IF ~d2.ok THEN Fail(d2.err)
        ELSE IF ~is_relative_to(fs, dstp, StoreRoot) THEN Fail("escapes")
        ELSE IF MkdirFails(fs, Parent(dstp)) THEN Fail("NotADirectoryError")
        ELSE MvMove(fs, src, dstp, force, res, Mkdirs(fs, Parent(dstp)))

MvChecked(fs, src, force, d1, d2) ==
    MvAt(fs, src, force, d1, d2, d2.val, MvRes(fs, src, force, d1.ok /\ d2.ok, d2.val))

MvSlugged(fs, src, force, d1) ==
    MvChecked(fs, src, force, d1, id_to_path(StoreRoot, d1.val))

\* cmd_mv once resolve_id_or_path has returned src
MvResolved(fs, src, dst, force) ==
    MvSlugged(fs, src, force, _reject_unsafe(normalize_slug(dst)))

cmd_mv(fs, token, dst, force) ==
    {MvResolved(fs, src, dst, force) :
        src \in resolve_id_or_path(fs, StoreRoot, token)}

\* the loop of cmd_import over the bookmarks of the file, one url each
RECURSIVE ImportLoop(_, _, _, _, _)
ImportLoop(fs, urls, force, now, written) ==
    IF urls = <<>>
    THEN [files |-> fs.files, dirs |-> fs.dirs,
          res |-> [cmd |-> "import", ok |-> TRUE, err |-> "", written |-> written]]
    ELSE LET url == Head(urls)
             r == id_to_path(StoreRoot, create_slug_from_url(url))
             fpath == r.val
             meta == << Str(K_url, url), Str(K_title, <<>>), List(K_tags, <<>>),
                        Str(K_created, iso_now(now)) >>
         IN  IF ~r.ok
             THEN [files |-> fs.files, dirs |-> fs.dirs,
                   res |-> [cmd |-> "import", ok |-> FALSE, err |-> r.err,
                            written |-> written]]
             ELSE IF Exists(fs, fpath) /\ ~force
             THEN ImportLoop(fs, Tail(urls), force, now, written)
             ELSE IF MkdirFails(fs, Parent(fpath))
             THEN [files |-> fs.files, dirs |-> fs.dirs,
                   res |-> [cmd |-> "import", ok |-> FALSE,
                            err |-> "NotADirectoryError", written |-> written]]
             ELSE ImportLoop(
                      [fs EXCEPT
                          !.files = atomic_write(fs.files, ResolvePath(fs, fpath),
                                                 build_text(meta, <<>>)),
                          !.dirs = Mkdirs(fs, Parent(fpath))],
                      Tail(urls), force, now,
                      written \cup {ResolvePath(fs, fpath)})

cmd_import(fs, urls, force, now) == {ImportLoop(fs, urls, force, now, {})}

\* cmd_show: resolve the token and print the entry; nothing is written
cmd_show(fs, token) ==
    {[files |-> fs.files, dirs |-> fs.dirs,
      res |-> [cmd |-> "show", ok |-> r.kind = "path",
               err |-> IF r.kind = "none" THEN "not found" ELSE r.err,
               token |-> token, path |-> r.path]]
     : r \in resolve_id_or_path(fs, StoreRoot, token)}

(***************************************************************************)
(* Timestamps.  A parsed timestamp is None, an aware time or a naive time; *)
(* t counts the seconds from 2000-01-01 in a calendar of 31-day months,    *)
(* which keeps the order of the dates.                                     *)
(***************************************************************************)
NoTime == [kind |-> "none", t |-> 0]
Aware(n) == [kind |-> "aware", t |-> n]
Naive(n) == [kind |-> "naive", t |-> n]

IsDigit(c) == \E i \in 1..Len(Digits) : Digits[i] = c
DigitVal(c) == (CHOOSE i \in 1..Len(Digits) : Digits[i] = c) - 1

\* int(s[i : i + n]) for a run of digits
RECURSIVE Num(_, _, _)
Num(s, i, n) ==
    IF n = 0 THEN 0 ELSE Num(s, i, n - 1) * 10 + DigitVal(s[i + n - 1])

AllDigits(s, idx) == \A i \in idx : i <= Len(s) /\ IsDigit(s[i])

\* re.fullmatch(r"\d{4}-\d{2}-\d{2}", ts)
IsBareDate(s) ==
    /\ Len(s) = Len(<<"Y","Y","Y","Y","-","M","M","-","D","D">>)
    /\ AllDigits(s, {1, 2, 3, 4, 6, 7, 9, 10})
    /\ s[5] = "-" /\ s[8] = "-"

IsLeap(y) == y % 4 = 0 /\ (y % 100 # 0 \/ y % 400 = 0)
DaysIn(y, m) ==
    IF m = 2 THEN (IF IsLeap(y) THEN 29 ELSE 28)
    ELSE IF m \in {4, 6, 9, 11} THEN 30 ELSE 31

\* the date a datetime accepts
ValidDate(y, m, d) == y >= 1 /\ m \in 1..12 /\ d \in 1..DaysIn(y, m)

Seconds(y, m, d, hh, mm, ss) ==
    ((((y - 2000) * 12 + (m - 1)) * 31 + (d - 1)) * 24 + hh) * 3600 + mm * 60 + ss

\* the offset of "Z" / "+00:00" / "+HH:MM" / "-HH:MM", in seconds; the text
\* is a well-formed offset
IsOffset(z) ==
    /\ Len(z) = Len(<<"+","H","H",":","M","M">>)
    /\ z[1] \in {"+", "-"}
    /\ AllDigits(z, {2, 3, 5, 6})
    /\ z[4] = ":"
    /\ Num(z, 2, 2) < 24 /\ Num(z, 5, 2) < 60
OffsetOf(z) ==
    (IF z[1] = "-" THEN 0 - 1 ELSE 1) * (Num(z, 2, 2) * 3600 + Num(z, 5, 2) * 60)

\* _normalize_iso_z(ts)
_normalize_iso_z(ts) ==
    IF ts # <<>> /\ EndsWith(ts, <<"Z">>)
    THEN SubSeq(ts, 1, Len(ts) - 1) \o <<"+","0","0",":","0","0">>
    ELSE ts

\* datetime.fromisoformat for the texts YYYY-MM-DDTHH:MM:SS[+HH:MM]; any
\* other text of the generated stores raises ValueError (None here)
fromisoformat(s) ==
    LET dateLen == Len(<<"Y","Y","Y","Y","-","M","M","-","D","D">>)
        timeLen == Len(<<"T","H","H",":","M","M",":","S","S">>)
        z == SubSeq(s, dateLen + timeLen + 1, Len(s))
        y == Num(s, 1, 4)
        m == Num(s, 6, 2)
        d == Num(s, 9, 2)
        hh == Num(s, 12, 2)
        mm == Num(s, 15, 2)
        ss == Num(s, 18, 2)
    IN  IF /\ Len(s) >= dateLen + timeLen
           /\ IsBareDate(SubSeq(s, 1, dateLen))
           /\ s[11] = "T" /\ s[14] = ":" /\ s[17] = ":"
           /\ AllDigits(s, {12, 13, 15, 16, 18, 19})
           /\ ValidDate(y, m, d)
           /\ hh < 24 /\ mm < 60 /\ ss < 60
           /\ (z = <<>> \/ IsOffset(z))
        THEN IF z = <<>> THEN Naive(Seconds(y, m, d, hh, mm, ss))
             ELSE Aware(Seconds(y, m, d, hh, mm, ss) - OffsetOf(z))
        ELSE NoTime

\* the time iso_now(now) names: iso_now's text carries the local offset, so
\* it parses to an aware time, later than every date of the generated stores
IsNowText(s) == Len(s) = 2 /\ s[1] = "t" /\ IsDigit(s[2])
NowTime(s) == Aware(Seconds(2030, 1, 1, 0, 0, DigitVal(s[2])))

\* parse_iso(ts); a bare date is the start of that day in the local zone,
\* which is taken to be UTC
parse_iso(ts) ==
    LET s == Strip(ts)
    IN  IF ts = <<>> THEN NoTime
        ELSE IF IsNowText(s) THEN NowTime(s)
        ELSE IF IsBareDate(s)
        THEN IF ValidDate(Num(s, 1, 4), Num(s, 6, 2), Num(s, 9, 2))
             THEN Aware(Seconds(Num(s, 1, 4), Num(s, 6, 2), Num(s, 9, 2), 0, 0, 0))
             ELSE NoTime
        ELSE fromisoformat(_normalize_iso_z(s))

\* a < b on datetimes: TypeError when one is naive and the other aware
Comparable(a, b) == a.kind = b.kind

\* datetime.min.replace(tzinfo=timezone.utc): an aware time before every
\* other one (year 1 in Python; 1970 here, before every time of the
\* generated stores, so that Seconds stays within TLC's integers)
DatetimeMin == Aware(Seconds(1970, 1, 1, 0, 0, 0))

(***************************************************************************)
(* The commands that read the store: list, search, tags, export, open      *)
(***************************************************************************)
\* sorted(paths)
RECURSIVE SortedPaths(_)
SortedPaths(ps) ==
    IF ps = {} THEN <<>>
    ELSE <<FirstPath(ps)>> \o SortedPaths(ps \ {FirstPath(ps)})

\* ts = parse_iso(meta.get("created")) or parse_iso(meta.get("modified"))
TimeOr(created, meta) ==
    IF created.kind # "none" THEN created ELSE parse_iso(MetaGet(meta, K_modified))
EntryTime(meta) == TimeOr(parse_iso(MetaGet(meta, K_created)), meta)

\* "_sort": ts or datetime.min.replace(tzinfo=timezone.utc)
SortKey(ts) == IF ts.kind # "none" THEN ts ELSE DatetimeMin

\* an entry as the loops over _iter_entries see it
Timed(p, e, ts) ==
    [path |-> p, meta |-> e.meta, body |-> e.body, ts |-> ts, sort |-> SortKey(ts)]
EntryOf(p, e) == Timed(p, e, EntryTime(e.meta))

\* _iter_entries(store): the entries in the order of their paths
IterPaths(fs, ps) == [i \in 1..Len(ps) |-> EntryOf(ps[i], load_entry(fs, ps[i]))]
_iter_entries(fs, store) == IterPaths(fs, SortedPaths(rglob(fs, store)))

\* `since_dt and (not ts or ts < since_dt)` raises TypeError for some entry
SinceRaises(entries, since_dt) ==
    /\ since_dt.kind # "none"
    /\ \E i \in 1..Len(entries) :
           entries[i].ts.kind # "none" /\ ~Comparable(entries[i].ts, since_dt)

\* the entries the since filter keeps
SinceKeeps(entries, since_dt) ==
    SelectSeq(entries,
              LAMBDA e : since_dt.kind = "none"
                         \/ (e.ts.kind # "none" /\ e.ts.t >= since_dt.t))

\* rows.sort(key=lambda r: r["_sort"], reverse=True) raises TypeError
SortRaises(rows) ==
    \E i, j \in 1..Len(rows) : ~Comparable(rows[i].sort, rows[j].sort)

\* the stable sort, newest first: rows of equal time keep their order
RECURSIVE InsertRow(_, _)
InsertRow(sorted, r) ==
    IF sorted = <<>> THEN <<r>>
    ELSE IF Head(sorted).sort.t >= r.sort.t
    THEN <<Head(sorted)>> \o InsertRow(Tail(sorted), r)
    ELSE <<r>> \o sorted

RECURSIVE SortNewest(_, _)
SortNewest(rows, sorted) ==
    IF rows = <<>> THEN sorted
    ELSE SortNewest(Tail(rows), InsertRow(sorted, Head(rows)))

RowPaths(rows) == [i \in 1..Len(rows) |-> rows[i].path]

\* a variant that saves every entry again with a modified value
ReadsStamping(fs, res) ==
    {[files |-> [p \in DOMAIN fs.files |->
                    build_text(DictSet(load_entry(fs, p).meta,
                                       Str(K_modified, <<"t", "0">>)),
                               load_entry(fs, p).body)],
      dirs |-> fs.dirs, res |-> res]}

\* a command that only reads: the store stays as it is
Reads(fs, res) == {[files |-> fs.files, dirs |-> fs.dirs, res |-> res]}

ReadRes(cmd, arg, ok, err, rows) ==
    [cmd |-> cmd, arg |-> arg, ok |-> ok, err |-> err, rows |-> rows]

\* rows.sort and the output
SortRows(fs, cmd, arg, rows) ==
    IF SortRaises(rows) THEN Reads(fs, ReadRes(cmd, arg, FALSE, "TypeError", <<>>))
    ELSE Reads(fs, ReadRes(cmd, arg, TRUE, "", RowPaths(SortNewest(rows, <<>>))))

\* the since filter of cmd_list, once the entries are read
ListRows(fs, cmd, arg, entries, since_dt) ==
    IF SinceRaises(entries, since_dt)
    THEN Reads(fs, ReadRes(cmd, arg, FALSE, "TypeError", <<>>))
    ELSE SortRows(fs, cmd, arg, SinceKeeps(entries, since_dt))

\* cmd_list with --since (no --tag, no --host); since = "" is no --since
cmd_list(fs, since) ==
    ListRows(fs, "list", since, _iter_entries(fs, StoreRoot), parse_iso(since))

\* str.split(): the words of a text
Words(s) == NonEmpty(Split(ReplaceChar(ReplaceChar(s, "\n", " "), "\t", " "), " "))

\* the text cmd_search looks into
Blob(e) ==
    ToLower(Join(<<MetaGet(e.meta, K_title), MetaGet(e.meta, K_url),
                   Join(MetaGet(e.meta, K_tags), <<" ">>), e.body>>, <<"\n">>))

\* cmd_search: the entries that hold every word of the query, newest first
HoldsAll(blob, words) == \A i \in 1..Len(words) : Find(blob, words[i]) # 0

cmd_search(fs, q) ==
    SortRows(fs, "search", q,
             SelectSeq(_iter_entries(fs, StoreRoot),
                       LAMBDA e : HoldsAll(Blob(e), Words(ToLower(q)))))

\* cmd_tags: the folder names and the header tags of all entries
cmd_tags(fs) ==
    LET es == _iter_entries(fs, StoreRoot)
        folder == UNION {{es[i].path[n] : n \in (Len(StoreRoot) + 1)..(Len(es[i].path) - 1)}
                         : i \in 1..Len(es)}
        header == UNION {{Strip(MetaGet(es[i].meta, K_tags)[n]) :
                              n \in 1..Len(MetaGet(es[i].meta, K_tags))}
                         : i \in 1..Len(es)}
    IN  Reads(fs, [cmd |-> "tags", arg |-> <<>>, ok |-> TRUE, err |-> "",
                   names |-> (folder \cup header) \ {<<>>}])

\* cmd_export: netscape filters by --since and keeps the order of the
\* paths; json lists every entry; another format dies
ExportRows(fs, fmt, since, es, since_dt) ==
    IF fmt = "netscape"
    THEN IF SinceRaises(es, since_dt)
         THEN Reads(fs, ReadRes("export", since, FALSE, "TypeError", <<>>))
         ELSE Reads(fs, ReadRes("export", since, TRUE, "",
                        RowPaths(SinceKeeps(es, since_dt))))
    ELSE IF fmt = "json"
    THEN Reads(fs, ReadRes("export", since, TRUE, "", RowPaths(es)))
    ELSE Reads(fs, ReadRes("export", since, FALSE, "unknown export format", <<>>))

cmd_export(fs, fmt, since) ==
    ExportRows(fs, fmt, since, _iter_entries(fs, StoreRoot), parse_iso(since))

\* cmd_open: the url of the resolved entry goes to the browser
OpenAt(fs, token, r) ==
    IF r.kind # "path"
    THEN Reads(fs, ReadRes("open", token, FALSE,
                           IF r.kind = "none" THEN "not found" ELSE r.err, <<>>))
    ELSE IF MetaGet(load_entry(fs, r.path).meta, K_url) = <<>>
    THEN Reads(fs, ReadRes("open", token, FALSE, "no url in entry", <<>>))
    ELSE Reads(fs, ReadRes("open", token, TRUE, "", <<r.path>>))

cmd_open(fs, token) ==
    UNION {OpenAt(fs, token, r) : r \in resolve_id_or_path(fs, StoreRoot, token)}

(***************************************************************************)
(* The commands that change an entry: rm, edit, tag                        *)
(***************************************************************************)
\* any(d.iterdir())
HasChild(files, dirs, links, d) ==
    \E p \in DOMAIN files \cup dirs \cup DOMAIN links : Len(p) > 0 /\ Parent(p) = d

\* a variant that removes the whole chain up to the store, empty or not
RECURSIVE PruneToStore(_, _, _, _, _)
PruneToStore(files, dirs, links, d, store) ==
    IF d = store \/ d = <<>> THEN dirs
    ELSE PruneToStore(files, dirs \ {d}, links, Parent(d), store)

\* while d != store and not any(d.iterdir()): d.rmdir(); d = d.parent
\* returns the directories that are left
RECURSIVE Prune(_, _, _, _, _)
Prune(files, dirs, links, d, store) ==
    IF d = store \/ d = <<>> \/ HasChild(files, dirs, links, d) THEN dirs
    ELSE Prune(files, dirs \ {d}, links, Parent(d), store)

EntryRes(cmd, token, r) ==
    [cmd |-> cmd, arg |-> token, ok |-> r.kind = "path",
     err |-> IF r.kind = "none" THEN "not found" ELSE r.err, path |-> r.path]

\* the prune of cmd_rm, once p.unlink() has left the files `files`
RmFile(fs, p, files, res) ==
    {[files |-> files,
      dirs |-> Prune(files, fs.dirs, fs.links, Parent(p), StoreRoot),
      res |-> res]}

\* cmd_rm once resolve_id_or_path has returned r: p.unlink(), then the prune
RmAt(fs, token, r) ==
    IF r.kind # "path" THEN Reads(fs, EntryRes("rm", token, r))
    ELSE RmFile(fs, r.path, Unlink(fs.files, ResolvePath(fs, r.path)),
                EntryRes("rm", token, r))

cmd_rm(fs, token) ==
    UNION {RmAt(fs, token, r) : r \in resolve_id_or_path(fs, StoreRoot, token)}

\* meta["modified"] = iso_now(); atomic_write(p, build_text(meta, body))
Touch(fs, p, meta, body, now, res) ==
    {[files |-> atomic_write(fs.files, ResolvePath(fs, p),
                             build_text(DictSet(meta, Str(K_modified, iso_now(now))), body)),
      dirs |-> fs.dirs,
      res |-> res]}

\* cmd_edit once resolve_id_or_path has returned r: the editor rewrites the
\* file, the entry is loaded again and saved with a new modified
EditLoaded(fs, p, e, now, res) == Touch(fs, p, e.meta, e.body, now, res)

EditRes(token, r, choice, status) ==
    [cmd |-> "edit", arg |-> token, ok |-> r.kind = "path",
     err |-> IF r.kind = "none" THEN "not found" ELSE r.err, path |-> r.path,
     choice |-> choice, status |-> status]

\* a variant that saves the entry only when the editor exits with status 0
EditAtUnlessFailed(fs, token, choice, status, now, r) ==
    IF r.kind # "path" \/ status # 0
    THEN Reads(fs, EditRes(token, r, choice, status))
    ELSE EditLoaded(fs, r.path,
                    parse_front_matter(EditorOutput(choice, ReadText(fs, r.path))),
                    now, EditRes(token, r, choice, status))

\* status: what subprocess.call returns, the editor's exit status; the code
\* drops it
EditAt(fs, token, choice, status, now, r) ==
    IF r.kind # "path"
    THEN Reads(fs, EditRes(token, r, choice, status))
    ELSE EditLoaded(fs, r.path,
                    parse_front_matter(EditorOutput(choice, ReadText(fs, r.path))),
                    now, EditRes(token, r, choice, status))

cmd_edit(fs, token, choice, status, now) ==
    UNION {EditAt(fs, token, choice, status, now, r) :
               r \in resolve_id_or_path(fs, StoreRoot, token)}

\* sorted(set of strings)
RECURSIVE SortedStrs(_)
SortedStrs(ss) ==
    IF ss = {} THEN <<>>
    ELSE LET m == CHOOSE a \in ss : \A b \in ss : b = a \/ StrLess(a, b)
         IN  <<m>> \o SortedStrs(ss \ {m})

SeqSet(s) == {s[i] : i \in 1..Len(s)}

\* cur.update(...) / cur.difference_update(...) and sorted(cur)
TagsAfter(cur, op, tags) ==
    IF op = "add" THEN SortedStrs(SeqSet(cur) \cup SeqSet(StripAll(tags)))
    ELSE SortedStrs(SeqSet(cur) \ SeqSet(StripAll(tags)))

TagRes(token, r, op, tags, was, prev) ==
    [cmd |-> "tag", arg |-> token, ok |-> r.kind = "path",
     err |-> IF r.kind = "none" THEN "not found" ELSE r.err, path |-> r.path,
     op |-> op, targs |-> tags, was |-> was, prev |-> prev]

\* cmd_tag once the entry is loaded
TagLoaded(fs, p, e, op, tags, now, res) ==
    Touch(fs, p,
          DictSet(e.meta, List(K_tags, TagsAfter(MetaGet(e.meta, K_tags), op, tags))),
          e.body, now, [res EXCEPT !.was = MetaGet(e.meta, K_tags)])

\* cmd_tag once resolve_id_or_path has returned r
TagAt(fs, token, op, tags, now, prev, r) ==
    IF r.kind # "path"
    THEN Reads(fs, TagRes(token, r, op, tags, <<>>, prev))
    ELSE TagLoaded(fs, r.path, load_entry(fs, r.path), op, tags, now,
                   TagRes(token, r, op, tags, <<>>, prev))

\* prev: what the last command was, for a tag command that follows another
cmd_tag(fs, token, op, tags, now, prev) ==
    UNION {TagAt(fs, token, op, tags, now, prev, r) :
               r \in resolve_id_or_path(fs, StoreRoot, token)}

(***************************************************************************)
(* SpecStore: commands run one after the other against a store             *)
(***************************************************************************)
FS == [files |-> fsFiles, dirs |-> fsDirs, links |-> fsLinks]

S_a == <<"a">>
S_da == <<"d", "/", "a">>
S_lna == <<"l", "n", "/", "a">>
S_up == <<".", ".", "/", "o", "/", "a">>
S_r1 == <<"r", "1">>
S_1 == <<"1">>

AddArgs ==
    [url : {U1, U2}, id : {<<>>, S_a, S_r1, S_up}, path : {<<>>},
     name : {<<>>}, tags : {<<>>}, description : {<<>>},
     force : BOOLEAN, edit : {"no"}]
    \cup
    [url : {U1}, id : {<<>>}, path : {<<"d">>},
     name : {<<>>}, tags : {<<>>}, description : {<<>>},
     force : BOOLEAN, edit : {"no"}]
    \cup
    [url : {U1}, id : {S_a}, path : {<<>>},
     name : {<<>>}, tags : {<<>>}, description : {<<>>},
     force : BOOLEAN, edit : {"alt"}]

MvTokens == {S_a, S_r1}
MvDsts == {S_a, S_da, S_lna, S_up}
ShowTokens == {S_a, S_r1, S_1}
ImportFiles == UNION {[1..n -> {U1, U2}] : n \in 1..MaxImport}

\* a file that was in the linked directory before bm ran
OutsideEntry == Outside \o << <<"p", "-", "1">> \o FILE_EXT >>
OutsideText ==
    build_text(<<Str(K_url, U1), Str(K_created, <<"t", "0">>)>>, <<>>)

StoreInit ==
    /\ fsDirs = {<<>>, StoreRoot, Outside}
    /\ \/ fsLinks = <<>> /\ fsFiles = <<>>
       \/ fsLinks = (LinkPath :> Outside) /\ fsFiles = <<>>
       \/ fsLinks = (LinkPath :> Outside) /\ fsFiles = (OutsideEntry :> OutsideText)
    /\ clock = 0
    /\ last = [cmd |-> "none"]
    /\ SlugIdle
    /\ CodecIdle
    /\ WriteIdle

\* the command ends with outcome o
Ends(o) ==
    /\ fsFiles' = o.files
    /\ fsDirs' = o.dirs
    /\ last' = o.res
    /\ clock' = clock + 1
    /\ UNCHANGED <<fsLinks, slugVars, codecVars, writeVars>>

Add ==
    /\ clock < MaxSteps
    /\ \E a \in AddArgs : \E o \in cmd_add(FS, a, clock) : Ends(o)

Mv ==
    /\ clock < MaxSteps
    /\ \E t \in MvTokens : \E src \in resolve_id_or_path(FS, StoreRoot, t) :
           \E d \in MvDsts, f \in BOOLEAN : Ends(MvResolved(FS, src, d, f))

Import ==
    /\ clock < MaxSteps
    /\ \E urls \in ImportFiles, f \in BOOLEAN :
           \E o \in cmd_import(FS, urls, f, clock) : Ends(o)

Show ==
    /\ clock < MaxSteps
    /\ \E t \in ShowTokens : \E o \in cmd_show(FS, t) : Ends(o)

StoreNext == Add \/ Mv \/ Import \/ Show

SpecStore == StoreInit /\ [][StoreNext]_vars

(***************************************************************************)
(* Properties of the store commands                                        *)
(***************************************************************************)
\* the url an entry file decodes to, and the entry files whose url has an ID
EntryUrl(p) == MetaGet(load_entry(FS, p).meta, K_url)
EntriesWithId(id) ==
    {p \in rglob(FS, StoreRoot) : EntryUrl(p) # <<>> /\ rid(EntryUrl(p)) = id}
ExactPath(token) == id_to_path(StoreRoot, normalize_slug(Strip(token))).val
SuffixHits(token) ==
    {p \in rglob(FS, StoreRoot) :
        EndsWith(Stem(p), PathParts(normalize_slug(Strip(token)))[
                              Len(PathParts(normalize_slug(Strip(token))))])}

\* C2: add, mv and import apply both path checks before they write or rename:
\* no file outside the store directory is created or replaced, even when a
\* directory inside the store is a symbolic link that points outside.
C2_NoWriteOutsideStore ==
    /\ \A p \in DOMAIN fsFiles :
           IsUnder(p, StoreRoot) \/ (p = OutsideEntry /\ fsFiles[p] = OutsideText)
    /\ last.cmd = "import" => \A p \in last.written : IsUnder(p, StoreRoot)
    /\ last.cmd = "add" /\ last.ok => IsUnder(ResolvePath(FS, last.path), StoreRoot)
    /\ last.cmd = "mv" /\ last.ok => IsUnder(ResolvePath(FS, last.dst), StoreRoot)

C9_AddExisting ==
    last.cmd = "add" /\ last.existed =>
        IF last.force THEN last.ok /\ ReadText(FS, last.path) = last.text
        ELSE ~last.ok /\ ReadText(FS, last.path) = last.before

\* C9 amended: add to a slug whose entry file exists inside the store fails
\* without --force and leaves the existing content unchanged, and succeeds
\* with --force, the file then holding the new entry; when the existing file
\* is reached through a symbolic link that leaves the store, add fails with
\* and without --force and leaves the content unchanged.
C9_AddExistingInStore ==
    last.cmd = "add" /\ last.existed =>
        IF ~is_relative_to(FS, last.path, StoreRoot)
        THEN ~last.ok /\ last.err = "escapes"
             /\ ReadText(FS, last.path) = last.before
        ELSE IF last.force
        THEN last.ok /\ ReadText(FS, last.path) = last.text
        ELSE ~last.ok /\ last.err = "exists"
             /\ ReadText(FS, last.path) = last.before

\* add --force replaced the content of an existing entry of the store
C9_Witness ==
    /\ last.cmd = "add" /\ last.existed /\ last.force /\ last.ok
    /\ is_relative_to(FS, last.path, StoreRoot)
    /\ last.before # last.text
    /\ ReadText(FS, last.path) = last.text

\* the url of the moved entry, decoded from its content before the move
MovedUrl == MetaGet(parse_front_matter(last.moved).meta, K_url)

\* C10 as stated: after a successful mv the source path no longer exists, the
\* destination file is byte-identical to the original source, and the stable
\* ID of the entry, computed from its url before the move, resolves to the
\* destination path.
C10_MvMoves ==
    last.cmd = "mv" /\ last.ok =>
        /\ ~Exists(FS, last.src)
        /\ ReadText(FS, last.dst) = last.moved
        /\ resolve_id_or_path(FS, StoreRoot, rid(MovedUrl))
               = {Found(last.dst)}

\* C10 amended: after a successful mv the destination file is byte-identical
\* to the original source; the source path no longer exists when the
\* destination is another path; the stable ID of the entry resolves to an
\* entry whose url has that ID, which is the destination path when no other
\* entry holds a url with the same ID.
C10_MvMovesElsewhere ==
    last.cmd = "mv" /\ last.ok =>
        /\ last.src # last.dst => ~Exists(FS, last.src)
        /\ ReadText(FS, last.dst) = last.moved
        /\ last.dst \in EntriesWithId(rid(MovedUrl))
        /\ \A r \in resolve_id_or_path(FS, StoreRoot, rid(MovedUrl)) :
               r.kind = "path" /\ r.path \in EntriesWithId(rid(MovedUrl))
        /\ EntriesWithId(rid(MovedUrl)) = {last.dst} =>
               resolve_id_or_path(FS, StoreRoot, rid(MovedUrl))
                   = {Found(last.dst)}

\* mv moved an entry into a new subdirectory, and its stable ID resolves to
\* the destination
C10_Witness ==
    /\ last.cmd = "mv" /\ last.ok
    /\ last.src # last.dst
    /\ Len(last.dst) = Len(StoreRoot) + 2
    /\ ~Exists(FS, last.src)
    /\ ReadText(FS, last.dst) = last.moved
    /\ resolve_id_or_path(FS, StoreRoot, rid(MovedUrl))
           = {Found(last.dst)}

(***************************************************************************)
(* SpecEntries: commands run one after the other against a store that     *)
(* holds entries already (no symbolic links)                               *)
(***************************************************************************)
E_a == StoreRoot \o << <<"a">> \o FILE_EXT >>
E_b == StoreRoot \o << <<"d">>, <<"b">> \o FILE_EXT >>
E_c == StoreRoot \o << <<"d">>, <<"e">>, <<"c">> \o FILE_EXT >>

D_2023_01 == <<"2","0","2","3","-","0","1","-","0","1">>
D_2023_06 == <<"2","0","2","3","-","0","6","-","0","1">>
D_2024_01 == <<"2","0","2","4","-","0","1","-","0","1">>
\* a full timestamp without offset
D_naive == <<"2","0","2","3","-","0","7","-","0","1","T","1","0",":","0","0",":","0","0">>

U_b == <<"h",":","/","/","b">>
U_c == <<"h",":","/","/","c">>
T_x == <<"x">>
T_y == <<"y">>
T_q == <<"a", "\"", "b">>

EntryText(url, title, tags, created, modified, body) ==
    build_text(<<Str(K_url, url), Str(K_title, title), List(K_tags, tags),
                 Str(K_created, created), Str(K_modified, modified)>>, body)

\* the stores the runs start from: three dated entries; an entry with a
\* timestamp without offset; an entry with a modified and no created; an
\* entry whose title ends in hyphens and a space
EntryStores ==
    { [files |-> (E_a :> EntryText(U1, T_x, <<T_y>>, D_2023_01, <<>>, <<"n", "\n">>))
                 @@ (E_b :> EntryText(U_b, <<>>, <<>>, D_2023_06, <<>>, <<>>))
                 @@ (E_c :> EntryText(U_c, <<>>, <<>>, D_2024_01, <<>>, <<>>)),
       dirs |-> {<<>>, StoreRoot, Parent(E_b), Parent(E_c)}],
      [files |-> (E_a :> EntryText(U1, <<>>, <<>>, D_naive, <<>>, <<>>))
                 @@ (E_b :> EntryText(U_b, <<>>, <<>>, D_2023_06, <<>>, <<>>)),
       dirs |-> {<<>>, StoreRoot, Parent(E_b)}],
      [files |-> (E_a :> EntryText(U1, <<>>, <<T_x>>, <<>>, D_2024_01, <<>>))
                 @@ (E_c :> EntryText(U_c, <<>>, <<>>, D_2023_01, <<>>, <<>>)),
       dirs |-> {<<>>, StoreRoot, Parent(E_b), Parent(E_c)}],
      [files |-> (E_a :> EntryText(U1, <<"x", "-", "-", "-", " ">>, <<>>, D_2023_01,
                                   <<>>, <<>>)),
       dirs |-> {<<>>, StoreRoot}] }

S_db == <<"d", "/", "b">>
S_dec == <<"d", "/", "e", "/", "c">>
S_n == <<"n">>

EntryTokens == {S_a, S_db, S_dec}
TagArgs == {<<T_x>>, <<T_y, T_x>>, <<T_q>>}
EditChoices == {"same", "redate"}
\* exit statuses of the editor
EditorStatuses == {0, 1}
SinceArgs == {<<>>, D_2023_06, D_naive}
Queries == {<<"x">>, <<"h">>}
ExportFormats == {"json", "netscape"}
EntryAddArgs ==
    [url : {U1}, id : {S_n}, path : {<<>>}, name : {<<>>}, tags : {<<>>},
     description : {<<>>}, force : {FALSE}, edit : {"no", "redate"}]
    \cup
    [url : {U1}, id : {S_a}, path : {<<>>}, name : {<<>>}, tags : {<<>>},
     description : {<<>>}, force : BOOLEAN, edit : {"no"}]

EntriesInit ==
    /\ \E s \in EntryStores : fsFiles = s.files /\ fsDirs = s.dirs
    /\ fsLinks = <<>>
    /\ clock = 0
    /\ last = [cmd |-> "none"]
    /\ SlugIdle
    /\ CodecIdle
    /\ WriteIdle

\* what a tag command remembers of the command before it
Prev == IF last.cmd = "tag" /\ last.ok
        THEN [op |-> last.op, path |-> last.path, targs |-> last.targs, was |-> last.was]
        ELSE [op |-> "none", path |-> NoPath, targs |-> <<>>, was |-> <<>>]

EAdd ==
    /\ clock < MaxCmds
    /\ \E a \in EntryAddArgs : \E o \in cmd_add(FS, a, clock) : Ends(o)

ETag ==
    /\ clock < MaxCmds
    /\ \E op \in {"add", "rm"}, tags \in TagArgs :
           \E o \in cmd_tag(FS, S_a, op, tags, clock, Prev) : Ends(o)

EEdit ==
    /\ clock < MaxCmds
    /\ \E c \in EditChoices, st \in EditorStatuses :
           \E o \in cmd_edit(FS, S_a, c, st, clock) : Ends(o)

ERm ==
    /\ clock < MaxCmds
    /\ \E t \in EntryTokens : \E o \in cmd_rm(FS, t) : Ends(o)

EMv ==
    /\ clock < MaxCmds
    /\ \E t \in {S_a, S_dec} : \E src \in resolve_id_or_path(FS, StoreRoot, t) :
           \E d \in {S_db, S_n}, f \in BOOLEAN : Ends(MvResolved(FS, src, d, f))

EShow ==
    /\ clock < MaxCmds
    /\ \E o \in cmd_show(FS, S_a) : Ends(o)

EOpen ==
    /\ clock < MaxCmds
    /\ \E o \in cmd_open(FS, S_a) : Ends(o)

EList ==
    /\ clock < MaxCmds
    /\ \E since \in SinceArgs : \E o \in cmd_list(FS, since) : Ends(o)

ESearch ==
    /\ clock < MaxCmds
    /\ \E q \in Queries : \E o \in cmd_search(FS, q) : Ends(o)

ETags ==
    /\ clock < MaxCmds
    /\ \E o \in cmd_tags(FS) : Ends(o)

EExport ==
    /\ clock < MaxCmds
    /\ \E fmt \in ExportFormats : \E o \in cmd_export(FS, fmt, D_2023_06) : Ends(o)

EntriesNext ==
    EAdd \/ ETag \/ EEdit \/ ERm \/ EMv \/ EShow \/ EOpen \/ EList \/ ESearch
    \/ ETags \/ EExport

SpecEntries == EntriesInit /\ [][EntriesNext]_vars

(***************************************************************************)
(* Properties of the entry commands                                        *)
(***************************************************************************)
\* the store after the step
FSn == [files |-> fsFiles', dirs |-> fsDirs', links |-> fsLinks']

\* the created value stored in the entry file p
CreatedOf(fs, p) == MetaGet(load_entry(fs, p).meta, K_created)

(***************************************************************************)
(* C11                                                                     *)
(***************************************************************************)
\* C11: once an entry file holds a created value, no edit, tag add/rm or mv
\* on that entry changes the stored created value; add with --edit keeps
\* the created value stamped before the editor ran, whatever the editor
\* wrote.
C11_CreatedKept ==
    [][/\ (last'.cmd \in {"edit", "tag"} /\ last'.ok /\ CreatedOf(FS, last'.path) # <<>>)
            => CreatedOf(FSn, last'.path) = CreatedOf(FS, last'.path)
       /\ (last'.cmd = "mv" /\ last'.ok /\ CreatedOf(FS, last'.src) # <<>>)
            => CreatedOf(FSn, last'.dst) = CreatedOf(FS, last'.src)
       /\ (last'.cmd = "add" /\ last'.ok)
            => CreatedOf(FSn, last'.path) = iso_now(clock)]_vars

(***************************************************************************)
(* C12                                                                     *)
(***************************************************************************)
\* the tags a tag command names
TagSet(targs) == SeqSet(StripAll(targs))

\* the header without tags and modified
OtherItems(meta) == SelectSeq(meta, LAMBDA e : e.k \notin {K_tags, K_modified})

\* C12: for an entry with tag set T, 'tag add X' followed by 'tag rm Y'
\* leaves exactly the tags (T \cup X) \ Y, without duplicates and in sorted
\* order; each of the two mutations sets modified and leaves created, url,
\* title, all other header keys and the body unchanged.
C12_TagAddRm ==
    [][(last'.cmd = "tag" /\ last'.ok) =>
          /\ MetaGet(load_entry(FSn, last'.path).meta, K_modified) = iso_now(clock)
          /\ DictEq(OtherItems(load_entry(FSn, last'.path).meta),
                    OtherItems(load_entry(FS, last'.path).meta))
          /\ load_entry(FSn, last'.path).body = load_entry(FS, last'.path).body
          /\ (last'.op = "rm" /\ last'.prev.op = "add" /\ last'.prev.path = last'.path)
               => MetaGet(load_entry(FSn, last'.path).meta, K_tags)
                  = SortedStrs((SeqSet(last'.prev.was) \cup TagSet(last'.prev.targs))
                               \ TagSet(last'.targs))]_vars

(***************************************************************************)
(* C13                                                                     *)
(***************************************************************************)
ReadOnlyCmds == {"show", "open", "list", "search", "tags", "export"}

ModifiedOf(fs, p) == MetaGet(load_entry(fs, p).meta, K_modified)

\* C13: show, open, list, search, tags and export leave every file of the
\* store byte for byte unchanged; mv changes only the path of the entry, not
\* its content; rm and add leave every other entry as it is; so the
\* modified field of an entry changes only in edit and tag.
C13_OnlyEditAndTagStamp ==
    [][/\ last'.cmd \in ReadOnlyCmds => (fsFiles' = fsFiles /\ fsDirs' = fsDirs)
       /\ (last'.cmd = "mv" /\ last'.ok) =>
             /\ DOMAIN fsFiles' = (DOMAIN fsFiles \ {last'.src}) \cup {last'.dst}
             /\ fsFiles'[last'.dst] = fsFiles[last'.src]
             /\ \A p \in DOMAIN fsFiles' \ {last'.dst} : fsFiles'[p] = fsFiles[p]
             /\ ModifiedOf(FSn, last'.dst) = ModifiedOf(FS, last'.src)
       /\ last'.cmd \in ReadOnlyCmds \cup {"rm"} =>
             \A p \in DOMAIN fsFiles' :
                 p \in DOMAIN fsFiles /\ ModifiedOf(FSn, p) = ModifiedOf(FS, p)
       /\ last'.cmd = "add" =>
             \A p \in DOMAIN fsFiles :
                 (last'.ok /\ p = last'.path)
                 \/ (p \in DOMAIN fsFiles' /\ fsFiles'[p] = fsFiles[p])
       /\ last'.cmd \in {"edit", "tag"} =>
             \A p \in DOMAIN fsFiles :
                 (last'.ok /\ p = last'.path)
                 \/ (p \in DOMAIN fsFiles' /\ fsFiles'[p] = fsFiles[p])]_vars

\* an entry that carries a modified value was moved and holds the same text
C13_Witness ==
    /\ last.cmd = "mv"
    /\ last.ok
    /\ last.src # last.dst
    /\ ReadText(FS, last.dst) = last.moved
    /\ ModifiedOf(FS, last.dst) # <<>>
    /\ ~IsFile(FS, last.src)

(***************************************************************************)
(* C14                                                                     *)
(***************************************************************************)
\* the directories between the store root and the file p, both excluded
Chain(p) == {SubSeq(p, 1, n) : n \in (Len(StoreRoot) + 1)..(Len(p) - 1)}

\* d holds nothing but directories of the chain
EmptiedBy(files, dirs, d, chain) ==
    /\ \A q \in DOMAIN files : ~IsUnder(q, d)
    /\ \A e \in dirs : (IsUnder(e, d) /\ e # d) => e \in chain

\* C14: rm deletes the resolved entry file and then removes every directory
\* on the chain from the file's parent up towards the store root that has
\* become empty, stopping at the first non-empty directory; it never
\* removes the store root, never removes a directory that still has a child,
\* and never deletes another entry.
C14_RmPrunes ==
    [][(last'.cmd = "rm" /\ last'.ok) =>
          /\ last'.path \in DOMAIN fsFiles
          /\ fsFiles' = Unlink(fsFiles, last'.path)
          /\ fsDirs' \subseteq fsDirs
          /\ fsDirs \ fsDirs'
             = {d \in Chain(last'.path) :
                    EmptiedBy(fsFiles', fsDirs, d, Chain(last'.path))}
          /\ StoreRoot \in fsDirs'
          /\ \A d \in fsDirs \ fsDirs' :
                 /\ \A q \in DOMAIN fsFiles' : ~IsUnder(q, d)
                 /\ \A e \in fsDirs' : ~IsUnder(e, d)]_vars

\* d/e/c was removed: d/e went, d stayed because it still holds d/b
C14_Witness ==
    /\ last.cmd = "rm"
    /\ last.ok
    /\ last.path = E_c
    /\ E_c \notin DOMAIN fsFiles
    /\ Parent(E_c) \notin fsDirs
    /\ Parent(E_b) \in fsDirs
    /\ E_b \in DOMAIN fsFiles

(***************************************************************************)
(* C19                                                                     *)
(***************************************************************************)
CreatedTime(p) == parse_iso(CreatedOf(FS, p))

\* C19: list with a --since lower bound returns exactly the entries whose
\* created timestamp is at or after the bound, ordered newest first.
C19_ListSince ==
    (last.cmd = "list" /\ parse_iso(last.arg).kind # "none") =>
        /\ last.ok
        /\ SeqSet(last.rows)
           = {p \in rglob(FS, StoreRoot) :
                 /\ CreatedTime(p).kind # "none"
                 /\ CreatedTime(p).t >= parse_iso(last.arg).t}
        /\ \A i, j \in 1..Len(last.rows) :
               i < j => /\ last.rows[i] # last.rows[j]
                        /\ CreatedTime(last.rows[i]).t >= CreatedTime(last.rows[j]).t

(***************************************************************************)
(* C21                                                                     *)
(***************************************************************************)
\* C21: list and search complete without an error for every store content,
\* with or without a --since bound.
C21_ListSearchNeverCrash ==
    last.cmd \in {"list", "search"} => last.ok

(***************************************************************************)
(* C22                                                                     *)
(***************************************************************************)
\* C22: when several entry files hold the same URL, resolving that URL's
\* stable ID returns the one whose relative path is lexicographically first,
\* the same on every call, whatever the directory enumeration order.
C22_DuplicateUrlFirst ==
    (last.cmd = "show" /\ Cardinality(EntriesWithId(last.token)) > 1)
        => last.ok /\ last.path = FirstPath(EntriesWithId(last.token))

(***************************************************************************)
(* SpecResolve: find_candidates and resolve_id_or_path applied to every    *)
(* bounded token, against stores that hold entries                         *)
(***************************************************************************)
\* find_candidates(store, needle): the whole list it returns
CandidatesExact(fs, store, exact, parts) ==
    IF ~exact.ok THEN Die(exact.err)
    ELSE IF Exists(fs, exact.val) THEN Ok(<<exact.val>>)
    ELSE Ok(SortedPaths({p \in rglob(fs, store) :
                EndsWith(Stem(p), IF parts = <<>> THEN <<>> ELSE parts[Len(parts)])}))

CandidatesSafe(fs, store, r) ==
    IF ~r.ok THEN Die(r.err)
    ELSE CandidatesExact(fs, store, id_to_path(store, r.val), PathParts(r.val))

Candidates(fs, store, needle) ==
    CandidatesSafe(fs, store, _reject_unsafe(normalize_slug(needle)))

R_ya == StoreRoot \o << <<"y", "a">> \o FILE_EXT >>
R_y_a == StoreRoot \o << <<"y">>, <<"a">> \o FILE_EXT >>
R_y_aa == StoreRoot \o << <<"y">>, <<"a", "a">> \o FILE_EXT >>
R_a == StoreRoot \o << <<"a">> \o FILE_EXT >>
R_a_y == StoreRoot \o << <<"a", "-", "y">> \o FILE_EXT >>

\* the stores: entries whose stems end alike, at two depths, one of them a
\* file without front matter; an empty store; two entries at the top
ResolveStores ==
    { [files |-> (R_ya :> EntryText(U1, <<>>, <<>>, D_2023_01, <<>>, <<>>))
                 @@ (R_y_a :> EntryText(U_b, <<>>, <<>>, D_2023_06, <<>>, <<>>))
                 @@ (R_y_aa :> <<"c">>),
       dirs |-> {<<>>, StoreRoot, Parent(R_y_a)}],
      [files |-> <<>>, dirs |-> {<<>>, StoreRoot}],
      [files |-> (R_a :> EntryText(U_c, <<>>, <<>>, D_2023_01, <<>>, <<>>))
                 @@ (R_a_y :> EntryText(U_b, <<>>, <<>>, D_2023_06, <<>>, <<>>)),
       dirs |-> {<<>>, StoreRoot}] }

TokenChars == {"a", "y", "/", ".", "-"}

\* every string over TokenChars up to the bound, a stable ID, and a token
\* with blanks around it
ResolveTokens ==
    UNION {[1..n -> TokenChars] : n \in 0..MaxTokenLen}
    \cup {rid(U1), <<" ", "a", " ">>}

ResolveInit ==
    /\ \E s \in ResolveStores : fsFiles = s.files /\ fsDirs = s.dirs
    /\ fsLinks = <<>>
    /\ clock = 0
    /\ last = [cmd |-> "none"]
    /\ SlugIdle
    /\ CodecIdle
    /\ WriteIdle

CallResolve ==
    /\ clock = 0
    /\ \E t \in ResolveTokens : \E r \in resolve_id_or_path(FS, StoreRoot, t) :
           last' = [cmd |-> "resolve", token |-> t, res |-> r]
    /\ clock' = clock + 1
    /\ UNCHANGED <<fsFiles, fsDirs, fsLinks, slugVars, codecVars, writeVars>>

CallFindCandidates ==
    /\ clock = 0
    /\ \E t \in ResolveTokens :
           last' = [cmd |-> "find", token |-> t, cands |-> Candidates(FS, StoreRoot, t)]
    /\ clock' = clock + 1
    /\ UNCHANGED <<fsFiles, fsDirs, fsLinks, slugVars, codecVars, writeVars>>

ResolveNext == CallResolve \/ CallFindCandidates

SpecResolve == ResolveInit /\ [][ResolveNext]_vars

(***************************************************************************)
(* C23                                                                     *)
(***************************************************************************)
\* the token as the resolver reads it, and its slug
TokenSlug(token) == normalize_slug(Strip(token))

\* the path-safety check lets the token through
TokenSafe(token) ==
    /\ ~HasSegment(TokenSlug(token), <<".", ".">>)
    /\ TokenSlug(token)[1] # "/"

\* the token's normalized last path component, as pathlib names it ("." is
\* no component)
TokenName(token) ==
    LET cs == SelectSeq(Split(TokenSlug(token), "/"),
                        LAMBDA c : c # <<>> /\ c # <<".">>)
    IN  IF cs = <<>> THEN <<>> ELSE cs[Len(cs)]

\* the entry at the token's exact path, the path id_to_path gives for the
\* token's slug, if there is one
TokenExact(token) ==
    LET r == _reject_unsafe(TokenSlug(token))
        e == id_to_path(StoreRoot, r.val)
    IN  IF r.ok /\ e.ok /\ Exists(FS, e.val) THEN {e.val} ELSE {}

\* the entries whose filename stem ends with the token's last component
TokenHits(token) ==
    {p \in rglob(FS, StoreRoot) : EndsWith(Stem(p), TokenName(token))}

\* what C23 says of a token that matches no exact path and no stable ID
FuzzyResult(token, res) ==
    IF TokenHits(token) = {} THEN res = NotFound
    ELSE /\ res.kind = "path"
         /\ res.path \in TokenHits(token)
         /\ \A q \in TokenHits(token) : q = res.path \/ PathLess(res.path, q)

\* what C23 says of find_candidates
CandidatesResult(token, cands) ==
    /\ TokenExact(token) # {} => (cands.ok /\ {cands.val} = {<<p>> : p \in TokenExact(token)})
    /\ (TokenExact(token) = {} /\ TokenHits(token) = {}) => (cands.ok /\ cands.val = <<>>)

\* C23 as stated: when neither exact path nor stable ID matches, the
\* resolver returns the lexicographically first entry whose filename stem
\* ends with the normalized last path component of the token, and None when
\* no entry matches; find_candidates returns [exact] on an exact path hit
\* and [] when nothing matches.
C23_FuzzyFallback ==
    /\ (/\ last.cmd = "resolve"
        /\ TokenExact(last.token) = {}
        /\ EntriesWithId(Strip(last.token)) = {})
         => FuzzyResult(last.token, last.res)
    /\ last.cmd = "find" => CandidatesResult(last.token, last.cands)

\* C23 amended: the same for every token that passes the path-safety check;
\* for a token whose slug has a '..' segment or starts with '/', the
\* resolver and find_candidates die with the path-safety error.
C23_FuzzyFallbackSafe ==
    /\ (/\ last.cmd = "resolve"
        /\ TokenExact(last.token) = {}
        /\ EntriesWithId(Strip(last.token)) = {})
         => IF TokenSafe(last.token) THEN FuzzyResult(last.token, last.res)
            ELSE last.res.kind = "die"
    /\ last.cmd = "find" =>
           IF TokenSafe(last.token) THEN CandidatesResult(last.token, last.cands)
           ELSE ~last.cands.ok

\* the token "a" matched no exact path and no stable ID; of the three
\* entries whose stem ends with "a" the resolver returned y/a, the first
C23_Witness ==
    /\ last.cmd = "resolve"
    /\ last.token = <<"a">>
    /\ TokenExact(last.token) = {}
    /\ TokenHits(last.token) = {R_ya, R_y_a, R_y_aa}
    /\ last.res = Found(R_y_a)

(***************************************************************************)
(* C24                                                                     *)
(***************************************************************************)
\* the keys of m whose value is None, "" or []; and the others
BlankKeys(m) == {m[i].k : i \in {j \in 1..Len(m) : m[j].t = "none" \/ m[j].v = <<>>}}
ValueKeys(m) == {m[i].k : i \in 1..Len(m)} \ BlankKeys(m)

\* the keys of the header lines of a rendered text
HeaderKeys(text) == KeysOf(ColonLines(text))

TagsEmptyLine == K_tags \o <<":", " ", "[", "]", "\n">>

\* C24 as stated: build_text drops every key whose value is None, the empty
\* string or the empty list: the rendered header has no line for such a
\* key, in particular no 'tags' line when the entry has no tags.
C24_DropsBlankKeys ==
    (cdFrom = "meta" /\ cdPc = "encoded") =>
        /\ \A k \in BlankKeys(cdMeta0) : k \notin HeaderKeys(cdText)
        /\ K_tags \notin ValueKeys(cdMeta0) => K_tags \notin HeaderKeys(cdText)

\* C24 amended: the header has no line for such a key, except for what the
\* normalization pass supplies after the drop: a line 'tags: []' when the
\* entry has no tags, and a created (modified) line that carries the value
\* of a legacy added (updated) key when the entry has no created (modified)
\* value.
C24_DropsBlankKeysButTags ==
    (cdFrom = "meta" /\ cdPc = "encoded") =>
        /\ \A k \in BlankKeys(cdMeta0) \ {K_tags} :
               k \in HeaderKeys(cdText) =>
                   \/ k = K_created /\ K_added \in ValueKeys(cdMeta0)
                   \/ k = K_modified /\ K_updated \in ValueKeys(cdMeta0)
        /\ K_tags \notin ValueKeys(cdMeta0) =>
               Find(cdText, <<"\n">> \o TagsEmptyLine) # 0
        /\ (K_created \in BlankKeys(cdMeta0) /\ K_added \in ValueKeys(cdMeta0)) =>
               Find(cdText, <<"\n">> \o K_created \o <<":", " ">>
                            \o MetaGet(cdMeta0, K_added) \o <<"\n">>) # 0

\* an entry with an empty title and an empty tag list was rendered: no
\* title line, and the line 'tags: []'
C24_Witness ==
    /\ cdFrom = "meta"
    /\ cdPc = "encoded"
    /\ {K_title, K_tags} \subseteq BlankKeys(cdMeta0)
    /\ cdText = FM_START \o TagsEmptyLine \o FM_END \o cdBody0

(***************************************************************************)
(* C25                                                                     *)
(***************************************************************************)
\* the header line 'modified: <now>'
ModifiedLine(now) == <<"\n">> \o K_modified \o <<":", " ">> \o iso_now(now) \o <<"\n">>

\* C25: after every completed edit of a resolved entry the file has been
\* written again by the codec with modified set to the current time,
\* whatever the editor's exit status, also when the editor changed nothing
\* or failed.
C25_EditAlwaysSaves ==
    [][(last'.cmd = "edit" /\ last'.ok) =>
          /\ last'.path \in DOMAIN fsFiles'
          /\ StartsWith(fsFiles'[last'.path], FM_START)
          /\ Find(fsFiles'[last'.path], ModifiedLine(clock)) # 0]_vars

\* the editor left the file as it was and exited with status 1; the entry
\* was saved with the time of the edit
C25_Witness ==
    /\ last.cmd = "edit"
    /\ last.ok
    /\ last.choice = "same"
    /\ last.status = 1
    /\ clock = 1
    /\ ModifiedOf(FS, last.path) = iso_now(0)

(***************************************************************************)
(* C26                                                                     *)
(***************************************************************************)
\* the step is an add or a mv that failed
FailedAddOrMv == last'.cmd \in {"add", "mv"} /\ ~last'.ok

\* the step is a mv without --force whose destination is occupied
MvOntoOccupied ==
    /\ last'.cmd = "mv"
    /\ ~last'.force
    /\ last'.dst # NoPath
    /\ Exists(FS, last'.dst)

\* C26: every add or mv that fails (unsafe path, destination escaping the
\* store, occupied destination without the overwrite flag, source not found)
\* leaves the store tree unchanged: no file is created, changed, moved or
\* deleted and no directory is created; a mv onto an occupied destination
\* fails unless --force is given.
C26_FailedLeavesTree ==
    [][/\ FailedAddOrMv => FSn = FS
       /\ MvOntoOccupied => ~last'.ok]_vars

\* a mv without --force onto an existing entry has failed with the source
\* and the destination entry both in place
C26_Witness ==
    /\ last.cmd = "mv"
    /\ ~last.ok
    /\ last.err = "exists"
    /\ ~last.force
    /\ last.src \in DOMAIN fsFiles
    /\ last.dst \in DOMAIN fsFiles
    /\ last.src # last.dst

(***************************************************************************)
(* SpecWrite2: two invocations of atomic_write on the same entry file at   *)
(* the same time, their system calls interleaved in every order.  Both     *)
(* compute the same temp path, path + ".tmp".                              *)
(***************************************************************************)
Writers == {1, 2}

WriteInit2 == WriteInitFor(Writers)

SpecWrite2 == WriteInit2 /\ [][WriteNext]_vars

(***************************************************************************)
(* C27                                                                     *)
(***************************************************************************)
\* C27: when two invocations write the same entry file at the same time
\* through atomic_write, in every interleaving of their temp-file writes and
\* renames the target holds the complete content of one writer or the
\* complete previous content, never a partial or mixed file, and once both
\* have finished it holds the content of one of the two writers.
C27_ConcurrentWritesWhole ==
    /\ Content(wFiles, WriteTarget) \in {wOld} \cup {wData[w] : w \in wProcs}
    /\ (\A w \in wProcs : wPc[w] = "done") =>
           Content(wFiles, WriteTarget) \in {wData[w] : w \in wProcs}

(***************************************************************************)
(* SpecUrl: create_slug_from_url applied to every URL h://<host><path>     *)
(* with a bounded host                                                     *)
(***************************************************************************)
HostChars == {"w", ".", "a", ":"}

UrlHosts ==
    UNION {[1..n -> HostChars] : n \in 0..MaxHostLen}
    \cup {<<"W", "w", "W", ".", "A">>, <<"a", ".", "w", "w", "w", ".", "a">>}

UrlPaths == {<<>>, <<"/">>, <<"/", "p">>, <<"/", "p", "/", "q", "/">>, <<"/", "p", "?", "x">>}

SlugUrls == {<<"h", ":", "/", "/">> \o h \o p : h \in UrlHosts, p \in UrlPaths}

UrlInit ==
    /\ slugIn \in SlugUrls
    /\ slugOut = NoCall
    /\ CodecIdle
    /\ WriteIdle
    /\ StoreIdle

\* create_slug_from_url(url)
CallCreateSlug ==
    /\ slugOut = NoCall
    /\ slugOut' = [fn |-> "create_slug_from_url", slug |-> create_slug_from_url(slugIn)]
    /\ UNCHANGED <<slugIn, codecVars, writeVars, storeVars>>

\* create_slug_from_url(url), called a second time
CallCreateSlugAgain ==
    /\ slugOut.fn = "create_slug_from_url"
    /\ slugOut' = [fn |-> "create_slug_twice", first |-> slugOut.slug,
                   slug |-> create_slug_from_url(slugIn)]
    /\ UNCHANGED <<slugIn, codecVars, writeVars, storeVars>>

UrlNext == CallCreateSlug \/ CallCreateSlugAgain

SpecUrl == UrlInit /\ [][UrlNext]_vars

(***************************************************************************)
(* C28                                                                     *)
(***************************************************************************)
\* the lower-cased netloc ('link' when there is none) without a leading
\* 'www.', dots and colons replaced by hyphens
LeadingWwwHost(url) ==
    LET n == UrlParse(url).netloc
        l == ToLower(IF n # <<>> THEN n ELSE <<"l", "i", "n", "k">>)
        h == IF StartsWith(l, <<"w", "w", "w", ".">>) THEN SubSeq(l, 5, Len(l)) ELSE l
    IN  ReplaceChar(ReplaceChar(h, ":", "-"), ".", "-")

\* the last segment of the URL's path, empty when the path has none
LastSegment(url) ==
    LET path == UrlParse(url).path
        segs == Split(StripSet(path, {"/"}), "/")
    IN  IF path # <<>> /\ path # <<"/">> THEN segs[Len(segs)] ELSE <<>>

\* <host>[/<last path segment>], normalized, then '-' and the short hash
SlugWanted(url) ==
    normalize_slug(IF LastSegment(url) # <<>>
                   THEN LeadingWwwHost(url) \o <<"/">> \o LastSegment(url)
                   ELSE LeadingWwwHost(url))
    \o <<"-">> \o _short_sha(url)

\* C28: create_slug_from_url is deterministic and its result has the form
\* <host>[/<last path segment>]-<short hash of the raw URL>, where host is
\* the lower-cased netloc with only a leading 'www.' removed and its dots
\* and colons replaced by hyphens.
C28_SlugFromUrl ==
    /\ slugOut.fn = "create_slug_from_url" => slugOut.slug = SlugWanted(slugIn)
    /\ slugOut.fn = "create_slug_twice" =>
           slugOut.slug = slugOut.first /\ slugOut.slug = SlugWanted(slugIn)

====
